---- MODULE Spec2Model ----
(***************************************************************************)
(* Model of the reconciliation engine of the StorEdge DaVinci miscompare   *)
(* analyzer (src/src/unit_status_analyzer.py, class UnitStatusAnalyzer),   *)
(* of the alert report (src/src/report_generator.py), of the Miscompares   *)
(* sheet (src/src/enhanced_excel_exporter.py) and of the first steps of    *)
(* the command-line application (src/main_analyzer.py).                    *)
(*                                                                         *)
(* A text value is a TLA+ string; str.strip, str[:3] and str.upper are     *)
(* computed character by character.  A raw table (the result of            *)
(* pd.read_csv) is a record [columns, rows]: columns is the header, a      *)
(* sequence of names, and each row is a sequence of cells aligned with     *)
(* it.  A cell is a record [t, s, n]: text (t = "str"), a missing value    *)
(* (t = "nan") or a number (t = "num").  A DataFrame built by the analyzer *)
(* is a sequence of records whose fields are the DataFrame's columns.      *)
(***************************************************************************)
EXTENDS Integers, Sequences, FiniteSets, TLC

VARIABLES
    units_file,     \* content of the file passed as units_file
    rentroll_file,  \* content of the file passed as rentroll_file
    locks_file,     \* content of the file passed as locks_file
    units_df,       \* UnitStatusAnalyzer.units_df
    rentroll_df,    \* UnitStatusAnalyzer.rentroll_df
    locks_df,       \* UnitStatusAnalyzer.locks_df
    master_df,      \* UnitStatusAnalyzer.master_df
    ret,            \* outcome of the last run_analysis call
    empty_apply_raises, \* the installed pandas: whether DataFrame.apply on a
                        \* table without rows gives a result that cannot be
                        \* assigned to one column
    locks_format,   \* format of the locks file: "csv" (delimited text) or
                    \* "xlsx" (a workbook, named *.xlsx)
    summary,        \* result of the last generate_summary_report call
    report_df,      \* ReportGenerator.df
    alert_report,   \* result of the last generate_alert_report call
    miscompares_sheet,  \* data rows of the Miscompares sheet last written
    seen,           \* what the caller kept of an earlier run_analysis call:
                    \* its three inputs and its outcome
    cli,            \* the command-line application: position in main() and
                    \* exit status
    got_miscompares,    \* outcome of the last get_miscompares call
    saved_results,  \* outcome of the last save_results call
    detailed_report,    \* Complete_Analysis sheet of the last detailed report
    written,        \* command-line application: the files written so far
    printed,        \* command-line application: what was printed so far
    args,           \* command-line application: --no-dashboard and
                    \* --no-visualizations
    web,            \* the web front end after 'Run Analysis' was pressed
    export,         \* export_to_excel: position and what it printed
    store           \* SupabaseManager.store_analysis_results: position,
                    \* batches inserted into the remote store, result

vars == <<units_file, rentroll_file, locks_file,
          units_df, rentroll_df, locks_df, master_df, ret, empty_apply_raises,
          locks_format, summary, report_df, alert_report, miscompares_sheet,
          seen, cli, got_miscompares, saved_results, detailed_report,
          written, printed, args, web, export, store>>

downstream == <<got_miscompares, saved_results, detailed_report>>
frontends == <<written, printed, args, web, export, store>>
frontendsButWeb == <<written, printed, args, export, store>>

(***************************************************************************)
(* Bounds of the model.                                                    *)
(***************************************************************************)
MaxUnits == 2
MaxRent == 1
MaxLocks == 1
MaxStatusLen == 4
MaxRentRows == 2
MaxLockRows == 2
MaxSummaryRows == 3
MaxStoreRows == 201

(***************************************************************************)
(* Cells and text operations.                                              *)
(***************************************************************************)
S(text) == [t |-> "str", s |-> text, n |-> 0]
N(num) == [t |-> "num", s |-> "", n |-> num]
NaN == [t |-> "nan", s |-> "", n |-> 0]

Whitespace == {" ", "\t"}

CharAt(s, i) == SubSeq(s, i, i)

RECURSIVE LStrip(_)
LStrip(s) ==
    IF Len(s) > 0 /\ CharAt(s, 1) \in Whitespace
    THEN LStrip(SubSeq(s, 2, Len(s)))
    ELSE s

RECURSIVE RStrip(_)
RStrip(s) ==
    IF Len(s) > 0 /\ CharAt(s, Len(s)) \in Whitespace
    THEN RStrip(SubSeq(s, 1, Len(s) - 1))
    ELSE s

\* str.strip()
Strip(s) == RStrip(LStrip(s))

\* the upper-case form of one character
UpperChar(c) ==
    CASE c = "a" -> "A" [] c = "b" -> "B" [] c = "c" -> "C" [] c = "d" -> "D"
      [] c = "e" -> "E" [] c = "f" -> "F" [] c = "g" -> "G" [] c = "h" -> "H"
      [] c = "i" -> "I" [] c = "j" -> "J" [] c = "k" -> "K" [] c = "l" -> "L"
      [] c = "m" -> "M" [] c = "n" -> "N" [] c = "o" -> "O" [] c = "p" -> "P"
      [] c = "q" -> "Q" [] c = "r" -> "R" [] c = "s" -> "S" [] c = "t" -> "T"
      [] c = "u" -> "U" [] c = "v" -> "V" [] c = "w" -> "W" [] c = "x" -> "X"
      [] c = "y" -> "Y" [] c = "z" -> "Z"
      [] OTHER -> c

\* str.upper()
RECURSIVE Upper(_)
Upper(s) ==
    IF Len(s) = 0 THEN ""
    ELSE UpperChar(CharAt(s, 1)) \o Upper(SubSeq(s, 2, Len(s)))

\* str[:k]
Prefix(s, k) == SubSeq(s, 1, IF Len(s) < k THEN Len(s) ELSE k)

\* astype(str) on one cell
AsTypeStr(c) ==
    CASE c.t = "str" -> c.s
      [] c.t = "nan" -> "nan"
      [] c.t = "num" -> ToString(c.n)

(***************************************************************************)
(* Raw tables and column access.                                           *)
(***************************************************************************)
HasCol(df, col) == \E i \in DOMAIN df.columns : df.columns[i] = col

ColIndex(df, col) == CHOOSE i \in DOMAIN df.columns : df.columns[i] = col

\* df[col] at one row
Cell(df, row, col) == row[ColIndex(df, col)]

\* a loader's outcome: a DataFrame, or the ValueError it raises
Loaded(rows) == [ok |-> TRUE, df |-> rows, file |-> "", missing |-> <<>>]
\* faulty variant: the error does not say which file lacks the columns
MissingColumns_NoFile(file, cols) ==
    [ok |-> FALSE, df |-> <<>>, file |-> "", missing |-> cols]

MissingColumns(file, cols) == [ok |-> FALSE, df |-> <<>>, file |-> file, missing |-> cols]

\* [col for col in required_cols if col not in df.columns]
MissingOf(df, required_cols) ==
    SelectSeq(required_cols, LAMBDA col : ~HasCol(df, col))

(***************************************************************************)
(* load_units_file                                                         *)
(***************************************************************************)
status_mapping == [Status_Clean \in {"OCC", "VAC"} |->
                     IF Status_Clean = "OCC" THEN "Occupied" ELSE "Vacant"]

\* faulty variant: the prefix is not upper-cased
StatusClean_NoUpper(cell) == Prefix(AsTypeStr(cell), 3)

\* Status_Clean = Status.astype(str).str[:3].str.upper()
StatusClean(cell) == Upper(Prefix(AsTypeStr(cell), 3))

\* Unit_Status = Status_Clean.map(status_mapping), unmapped filled with Unknown
UnitStatus(clean) ==
    IF clean \in DOMAIN status_mapping THEN status_mapping[clean] ELSE "Unknown"

UnitsRow(unit, status, status_clean) ==
    [Unit |-> Strip(AsTypeStr(unit)),
     Status |-> status,
     Status_Clean |-> status_clean,
     Unit_Status |-> UnitStatus(status_clean)]

LoadUnitsRow(df, row) ==
    UnitsRow(Cell(df, row, "Unit"), Cell(df, row, "Status"),
             StatusClean(Cell(df, row, "Status")))

load_units_file(df) ==
    LET missing_cols == MissingOf(df, <<"Unit", "Status">>)
    IN  IF missing_cols # <<>>
        THEN MissingColumns("units.csv", missing_cols)
        ELSE Loaded([i \in DOMAIN df.rows |-> LoadUnitsRow(df, df.rows[i])])

(***************************************************************************)
(* load_rentroll_file                                                      *)
(***************************************************************************)
unit_col_candidates == <<"Unit", "UNIT", "\"Unit\"", "\"UNIT\"">>
days_col_candidates ==
    <<"Days Past Due", "DAYS PAST DUE", "\"Days Past Due\"", "\"DAYS PAST DUE\"">>

\* any(col in available_cols for col in candidates)
AnyCol(df, candidates) == \E i \in DOMAIN candidates : HasCol(df, candidates[i])

\* the first candidate that is a column of df
FirstCol(df, candidates) ==
    candidates[CHOOSE i \in DOMAIN candidates :
                  /\ HasCol(df, candidates[i])
                  /\ \A j \in 1..(i - 1) : ~HasCol(df, candidates[j])]

Digits == "0123456789"

IsDigit(c) == \E i \in 1..Len(Digits) : CharAt(Digits, i) = c

DigitValue(c) == (CHOOSE i \in 1..Len(Digits) : CharAt(Digits, i) = c) - 1

IsDigits(s) == Len(s) > 0 /\ \A i \in 1..Len(s) : IsDigit(CharAt(s, i))

RECURSIVE DigitsValue(_)
DigitsValue(s) ==
    IF Len(s) = 0 THEN 0
    ELSE 10 * DigitsValue(SubSeq(s, 1, Len(s) - 1)) + DigitValue(CharAt(s, Len(s)))

\* text that pd.to_numeric parses as an integer: surrounding whitespace, an
\* optional sign, digits
IsNumeral(s) ==
    LET b == Strip(s)
    IN  \/ IsDigits(b)
        \/ Len(b) > 1 /\ CharAt(b, 1) \in {"-", "+"} /\ IsDigits(SubSeq(b, 2, Len(b)))

NumeralValue(s) ==
    LET b == Strip(s)
    IN  IF CharAt(b, 1) = "-" THEN 0 - DigitsValue(SubSeq(b, 2, Len(b)))
        ELSE IF CharAt(b, 1) = "+" THEN DigitsValue(SubSeq(b, 2, Len(b)))
        ELSE DigitsValue(b)

\* pd.to_numeric(cell, errors='coerce'): a number, or NaN
ToNumeric(c) ==
    CASE c.t = "num" -> c
      [] c.t = "nan" -> NaN
      [] c.t = "str" -> IF IsNumeral(c.s) THEN N(NumeralValue(c.s)) ELSE NaN

\* .fillna(0)
FillNa0(c) == IF c.t = "nan" THEN 0 ELSE c.n

\* Days_Past_Due_Clean = pd.to_numeric(df[days_col], errors='coerce').fillna(0)
DaysPastDueClean(cell) == FillNa0(ToNumeric(cell))

\* faulty variant: a balance of 0 days counts as delinquent
PaymentStatus_NonNegative(x) == IF x >= 0 THEN "Delinquent" ELSE "Current"

\* lambda x: 'Delinquent' if x > 0 else 'Current'
PaymentStatus(x) == IF x > 0 THEN "Delinquent" ELSE "Current"

RentrollRow(unit, days, days_clean) ==
    [Unit |-> Strip(AsTypeStr(unit)),
     Days_Past_Due |-> days,
     Days_Past_Due_Clean |-> days_clean,
     Payment_Status |-> PaymentStatus(days_clean)]

LoadRentrollRow(df, row) ==
    RentrollRow(Cell(df, row, FirstCol(df, unit_col_candidates)),
                Cell(df, row, FirstCol(df, days_col_candidates)),
                DaysPastDueClean(Cell(df, row, FirstCol(df, days_col_candidates))))

load_rentroll_file(df) ==
    LET missing_cols ==
            (IF AnyCol(df, unit_col_candidates) THEN <<>> ELSE <<"Unit">>)
            \o (IF AnyCol(df, days_col_candidates) THEN <<>> ELSE <<"Days Past Due">>)
    IN  IF missing_cols # <<>>
        THEN MissingColumns("rentroll.csv", missing_cols)
        ELSE Loaded([i \in DOMAIN df.rows |-> LoadRentrollRow(df, df.rows[i])])

(***************************************************************************)
(* load_locks_file                                                         *)
(***************************************************************************)
valid_lock_statuses ==
    {"Assigned Vacant", "Tenant Using Lock", "Assigned Auction", "Assigned Overlock"}

\* faulty variant: a status outside valid_lock_statuses is replaced
LoadLocksRow_Remap(df, row) ==
    [Unit |-> Strip(AsTypeStr(Cell(df, row, "Unit Number"))),
     Lock_Status |-> IF Strip(AsTypeStr(Cell(df, row, "Status"))) \in valid_lock_statuses
                     THEN Strip(AsTypeStr(Cell(df, row, "Status")))
                     ELSE "No Lock Assigned"]

LoadLocksRow(df, row) ==
    [Unit |-> Strip(AsTypeStr(Cell(df, row, "Unit Number"))),
     Lock_Status |-> Strip(AsTypeStr(Cell(df, row, "Status")))]

load_locks_file(df) ==
    LET missing_cols == MissingOf(df, <<"Unit Number", "Status">>)
    IN  IF missing_cols # <<>>
        THEN MissingColumns("locks.csv", missing_cols)
        ELSE Loaded([i \in DOMAIN df.rows |-> LoadLocksRow(df, df.rows[i])])

(***************************************************************************)
(* determine_unit_status                                                   *)
(***************************************************************************)
\* df.set_index(key)[val].to_dict() over the first k rows: a later row with the
\* same key overwrites an earlier one
EmptyDict == [u \in {} |-> ""]

\* faulty variant: the first row of a key decides
ToDict_FirstWins(df, key, val, k) ==
    [u \in {df[i][key] : i \in 1..k} |->
        df[CHOOSE i \in 1..k :
              df[i][key] = u /\ \A j \in 1..(i - 1) : df[j][key] # u][val]]

RECURSIVE ToDict(_, _, _, _)
ToDict(df, key, val, k) ==
    IF k = 0 THEN EmptyDict
    ELSE LET d == ToDict(df, key, val, k - 1)
         IN  [u \in DOMAIN d \cup {df[k][key]} |->
                IF u = df[k][key] THEN df[k][val] ELSE d[u]]

\* faulty variant: the rentroll is consulted before the occupancy
get_final_status_RentrollFirst(row, rentroll_mapping) ==
    IF row.Unit_Status \in {"Vacant", "Occupied"} /\ row.Unit \in DOMAIN rentroll_mapping
    THEN "Occupied-" \o rentroll_mapping[row.Unit]
    ELSE IF row.Unit_Status \in {"Vacant", "Occupied"} THEN "Vacant"
    ELSE "Unknown"

\* faulty variant: an occupied unit absent from the rentroll is Unknown
get_final_status_AbsentUnknown(row, rentroll_mapping) ==
    IF row.Unit_Status = "Vacant" THEN "Vacant"
    ELSE IF row.Unit_Status = "Occupied" /\ row.Unit \in DOMAIN rentroll_mapping
         THEN "Occupied-" \o rentroll_mapping[row.Unit]
    ELSE "Unknown"

get_final_status(row, rentroll_mapping) ==
    IF row.Unit_Status = "Vacant" THEN "Vacant"
    ELSE IF row.Unit_Status = "Occupied"
         THEN IF row.Unit \in DOMAIN rentroll_mapping
              THEN "Occupied-" \o rentroll_mapping[row.Unit]
              ELSE "Vacant"
         ELSE "Unknown"

\* faulty variant: a rentroll unit without a unit row gets a row of its own
determine_unit_status_WithOrphans(units, rentroll) ==
    LET rentroll_mapping == ToDict(rentroll, "Unit", "Payment_Status", Len(rentroll))
        orphans == SelectSeq(rentroll,
                             LAMBDA r : \A i \in DOMAIN units : units[i].Unit # r.Unit)
    IN  [i \in DOMAIN units |->
            [Unit |-> units[i].Unit,
             Unit_Status |-> units[i].Unit_Status,
             Final_Status |-> get_final_status(units[i], rentroll_mapping)]]
        \o [i \in DOMAIN orphans |->
               [Unit |-> orphans[i].Unit,
                Unit_Status |-> "Occupied",
                Final_Status |-> "Occupied-" \o orphans[i].Payment_Status]]

determine_unit_status(units, rentroll) ==
    LET rentroll_mapping == ToDict(rentroll, "Unit", "Payment_Status", Len(rentroll))
    IN  [i \in DOMAIN units |->
            [Unit |-> units[i].Unit,
             Unit_Status |-> units[i].Unit_Status,
             Final_Status |-> get_final_status(units[i], rentroll_mapping)]]

(***************************************************************************)
(* __init__: the expected lock status table (a text value is kept as a     *)
(* list of one name)                                                       *)
(***************************************************************************)
expected_lock_status ==
    [final_status \in {"Vacant", "Occupied-Current", "Occupied-Delinquent"} |->
        CASE final_status = "Vacant" -> <<"Assigned Vacant">>
          [] final_status = "Occupied-Current" -> <<"Tenant Using Lock">>
          [] final_status = "Occupied-Delinquent" ->
                <<"Assigned Overlock", "Assigned Auction">>]

(***************************************************************************)
(* add_lock_status                                                         *)
(***************************************************************************)
\* faulty variant: the delinquent descriptor names the overlock only
get_expected_lock_status_OverlockOnly(final_status) ==
    IF final_status = "Vacant" THEN "Assigned Vacant"
    ELSE IF final_status = "Occupied-Current" THEN "Tenant Using Lock"
    ELSE IF final_status = "Occupied-Delinquent" THEN "Assigned Overlock"
    ELSE "Unknown"

get_expected_lock_status(final_status) ==
    IF final_status = "Vacant" THEN "Assigned Vacant"
    ELSE IF final_status = "Occupied-Current" THEN "Tenant Using Lock"
    ELSE IF final_status = "Occupied-Delinquent"
         THEN "Assigned Overlock or Assigned Auction"
    ELSE "Unknown"

\* faulty variant: the missing lock is not filled in
ActualLockStatus_NoFill(unit, locks_mapping) ==
    IF unit \in DOMAIN locks_mapping THEN locks_mapping[unit] ELSE "nan"

\* result_df['Unit'].map(locks_mapping).fillna('No Lock Assigned') at one unit
ActualLockStatus(unit, locks_mapping) ==
    IF unit \in DOMAIN locks_mapping THEN locks_mapping[unit] ELSE "No Lock Assigned"

add_lock_status(units, locks) ==
    LET locks_mapping == ToDict(locks, "Unit", "Lock_Status", Len(locks))
    IN  [i \in DOMAIN units |->
            [Unit |-> units[i].Unit,
             Unit_Status |-> units[i].Unit_Status,
             Final_Status |-> units[i].Final_Status,
             Actual_Lock_Status |-> ActualLockStatus(units[i].Unit, locks_mapping),
             Expected_Lock_Status |-> get_expected_lock_status(units[i].Final_Status)]]

(***************************************************************************)
(* detect_miscompares                                                      *)
(***************************************************************************)
\* faulty variant: only the overlock is accepted on a delinquent unit
is_miscompare_OverlockOnly(row) ==
    IF row.Final_Status = "Occupied-Delinquent"
    THEN row.Actual_Lock_Status # "Assigned Overlock"
    ELSE IF row.Final_Status = "Vacant" THEN row.Actual_Lock_Status # "Assigned Vacant"
    ELSE IF row.Final_Status = "Occupied-Current"
         THEN row.Actual_Lock_Status # "Tenant Using Lock"
    ELSE FALSE

\* faulty variant: every other status compares the actual with the expected lock
is_miscompare_Generic(row) ==
    IF row.Final_Status = "Occupied-Delinquent"
    THEN row.Actual_Lock_Status \notin {"Assigned Overlock", "Assigned Auction"}
    ELSE row.Actual_Lock_Status # row.Expected_Lock_Status

is_miscompare(row) ==
    LET actual == row.Actual_Lock_Status
        final_status == row.Final_Status
    IN  IF final_status = "Occupied-Delinquent"
        THEN actual \notin {"Assigned Overlock", "Assigned Auction"}
        ELSE IF final_status = "Vacant" THEN actual # "Assigned Vacant"
        ELSE IF final_status = "Occupied-Current" THEN actual # "Tenant Using Lock"
        ELSE FALSE

\* faulty variant: the severity is classified without looking at Is_Miscompare
get_miscompare_severity_Unguarded(row) ==
    IF row.Final_Status = "Vacant"
       /\ row.Actual_Lock_Status \in {"Tenant Using Lock", "Assigned Overlock"}
    THEN "HIGH - Vacant unit with tenant lock"
    ELSE IF row.Final_Status = "Occupied-Current"
            /\ row.Actual_Lock_Status \in {"Assigned Vacant", "Assigned Overlock"}
    THEN "HIGH - Current tenant without proper lock"
    ELSE IF row.Final_Status = "Occupied-Delinquent"
            /\ row.Actual_Lock_Status = "Assigned Vacant"
    THEN "HIGH - Delinquent unit without lock"
    ELSE "MEDIUM - Lock status mismatch"

\* faulty variant: rule 2 misses the overlock
get_miscompare_severity_NoOverlock(row) ==
    IF ~row.Is_Miscompare THEN "No Issue"
    ELSE IF row.Final_Status = "Vacant"
            /\ row.Actual_Lock_Status \in {"Tenant Using Lock", "Assigned Overlock"}
    THEN "HIGH - Vacant unit with tenant lock"
    ELSE IF row.Final_Status = "Occupied-Current"
            /\ row.Actual_Lock_Status = "Assigned Vacant"
    THEN "HIGH - Current tenant without proper lock"
    ELSE IF row.Final_Status = "Occupied-Delinquent"
            /\ row.Actual_Lock_Status = "Assigned Vacant"
    THEN "HIGH - Delinquent unit without lock"
    ELSE "MEDIUM - Lock status mismatch"

\* faulty variant: the lock alone decides the label, whatever the final status
get_miscompare_severity_AnyStatus(row) ==
    LET actual == row.Actual_Lock_Status
    IN  IF ~row.Is_Miscompare THEN "No Issue"
        ELSE IF actual \in {"Tenant Using Lock", "Assigned Overlock"}
             THEN "HIGH - Vacant unit with tenant lock"
        ELSE IF actual \in {"Assigned Vacant", "Assigned Overlock"}
             THEN "HIGH - Current tenant without proper lock"
        ELSE "MEDIUM - Lock status mismatch"

get_miscompare_severity(row) ==
    LET actual == row.Actual_Lock_Status
        final_status == row.Final_Status
    IN  IF ~row.Is_Miscompare THEN "No Issue"
        ELSE IF final_status = "Vacant"
                /\ actual \in {"Tenant Using Lock", "Assigned Overlock"}
             THEN "HIGH - Vacant unit with tenant lock"
        ELSE IF final_status = "Occupied-Current"
                /\ actual \in {"Assigned Vacant", "Assigned Overlock"}
             THEN "HIGH - Current tenant without proper lock"
        ELSE IF final_status = "Occupied-Delinquent" /\ actual = "Assigned Vacant"
             THEN "HIGH - Delinquent unit without lock"
        ELSE "MEDIUM - Lock status mismatch"

DetectRow(row) ==
    LET flagged == [Unit |-> row.Unit,
                    Unit_Status |-> row.Unit_Status,
                    Final_Status |-> row.Final_Status,
                    Actual_Lock_Status |-> row.Actual_Lock_Status,
                    Expected_Lock_Status |-> row.Expected_Lock_Status,
                    Is_Miscompare |-> is_miscompare(row)]
    IN  [Unit |-> row.Unit,
         Unit_Status |-> row.Unit_Status,
         Final_Status |-> row.Final_Status,
         Actual_Lock_Status |-> row.Actual_Lock_Status,
         Expected_Lock_Status |-> row.Expected_Lock_Status,
         Is_Miscompare |-> flagged.Is_Miscompare,
         Miscompare_Severity |-> get_miscompare_severity(flagged)]

detect_miscompares(df) == [i \in DOMAIN df |-> DetectRow(df[i])]

(***************************************************************************)
(* run_analysis                                                            *)
(***************************************************************************)
\* a field of the analyzer: None, or a DataFrame
None == [none |-> TRUE, rows |-> <<>>]
DataFrame(rows) == [none |-> FALSE, rows |-> rows]

\* outcome of a call: nothing called yet, a returned table, or a raised error
NotCalled == [status |-> "none", df |-> <<>>, file |-> "", missing |-> <<>>]
Returned(rows) == [status |-> "returned", df |-> rows, file |-> "", missing |-> <<>>]
Raised(file, missing) == [status |-> "raised", df |-> <<>>, file |-> file, missing |-> missing]

\* the table run_analysis computes from the three loaded tables
Pipeline(units, rentroll, locks) ==
    detect_miscompares(add_lock_status(determine_unit_status(units, rentroll), locks))

\* result_df.apply(get_final_status, axis=1) on a table without rows gives, in
\* some pandas versions, a DataFrame that cannot be assigned to one column:
\* the run then raises; in the others it gives an empty column
ApplyRaises(units) == Len(units) = 0 /\ empty_apply_raises

\* faulty variant: a table stored by an earlier run is returned again
RunLoaded_Cached(u, r, l) ==
    IF ~master_df.none
    THEN /\ ret' = Returned(master_df.rows)
         /\ UNCHANGED <<units_df, rentroll_df, locks_df, master_df>>
    ELSE IF ~u.ok
    THEN /\ ret' = Raised(u.file, u.missing)
         /\ UNCHANGED <<units_df, rentroll_df, locks_df, master_df>>
    ELSE IF ~r.ok
    THEN /\ units_df' = DataFrame(u.df)
         /\ ret' = Raised(r.file, r.missing)
         /\ UNCHANGED <<rentroll_df, locks_df, master_df>>
    ELSE IF ~l.ok
    THEN /\ units_df' = DataFrame(u.df)
         /\ rentroll_df' = DataFrame(r.df)
         /\ ret' = Raised(l.file, l.missing)
         /\ UNCHANGED <<locks_df, master_df>>
    ELSE /\ units_df' = DataFrame(u.df)
         /\ rentroll_df' = DataFrame(r.df)
         /\ locks_df' = DataFrame(l.df)
         /\ IF ApplyRaises(u.df)
            THEN /\ ret' = Raised("", <<>>)
                 /\ UNCHANGED master_df
            ELSE /\ master_df' = DataFrame(Pipeline(u.df, r.df, l.df))
                 /\ ret' = Returned(master_df'.rows)

\* the body of run_analysis, given the outcomes u, r, l of the three loaders
RunLoaded(u, r, l) ==
    IF ~u.ok
    THEN /\ ret' = Raised(u.file, u.missing)
         /\ UNCHANGED <<units_df, rentroll_df, locks_df, master_df>>
    ELSE IF ~r.ok
    THEN /\ units_df' = DataFrame(u.df)
         /\ ret' = Raised(r.file, r.missing)
         /\ UNCHANGED <<rentroll_df, locks_df, master_df>>
    ELSE IF ~l.ok
    THEN /\ units_df' = DataFrame(u.df)
         /\ rentroll_df' = DataFrame(r.df)
         /\ ret' = Raised(l.file, l.missing)
         /\ UNCHANGED <<locks_df, master_df>>
    ELSE /\ units_df' = DataFrame(u.df)
         /\ rentroll_df' = DataFrame(r.df)
         /\ locks_df' = DataFrame(l.df)
         /\ IF ApplyRaises(u.df)
            THEN /\ ret' = Raised("", <<>>)
                 /\ UNCHANGED master_df
            ELSE /\ master_df' = DataFrame(Pipeline(u.df, r.df, l.df))
                 /\ ret' = Returned(master_df'.rows)

RunAnalysis ==
    /\ UNCHANGED <<downstream, frontends>>
    /\ RunLoaded(load_units_file(units_file), load_rentroll_file(rentroll_file),
                 load_locks_file(locks_file))
    /\ UNCHANGED <<units_file, rentroll_file, locks_file, empty_apply_raises>>
    /\ UNCHANGED <<locks_format, summary, report_df, alert_report,
                   miscompares_sheet, seen, cli>>

\* what a caller keeps of a call: the inputs, the outcome, and whether a
\* later call had other inputs
Kept(files, outcome) == [none |-> FALSE, files |-> files, ret |-> outcome, other |-> FALSE]

\* one more run_analysis call on the same analyzer, on the files u, r, l; the
\* caller keeps the outcome of this call or what it kept before
RunAnalysisOn(u, r, l) ==
    /\ UNCHANGED <<downstream, frontends>>
    /\ units_file' = u
    /\ rentroll_file' = r
    /\ locks_file' = l
    /\ RunLoaded(load_units_file(u), load_rentroll_file(r), load_locks_file(l))
    /\ seen' \in {Kept(<<u, r, l>>, ret'),
                  IF seen.none THEN seen
                  ELSE [seen EXCEPT !.other = @ \/ seen.files # <<u, r, l>>]}
    /\ UNCHANGED <<empty_apply_raises, locks_format, summary, report_df,
                   alert_report, miscompares_sheet, cli>>

(***************************************************************************)
(* generate_summary_report                                                 *)
(***************************************************************************)
\* a float64 result: the real number num / den + err * e for some e with
\* 0 < e < 2^-40 (err is the direction of the rounding error), or NaN
Float(num, den, err) == [nan |-> FALSE, num |-> num, den |-> den, err |-> err]
FloatNaN == [nan |-> TRUE, num |-> 0, den |-> 1, err |-> 0]

\* float64 arithmetic, round to nearest: the sign of
\* fl(fl(k / n) * 100) - 100 k / n, for n up to 6 and k up to n
\* ((1 / 3) * 100 is 33.33333333333333, (5 / 6) * 100 is 83.33333333333334)
RoundingError ==
    [n \in 1..6 |->
        [k \in 0..n |->
            IF (n = 3 /\ k \in {1, 2}) \/ (n = 6 /\ k \in {1, 2, 4}) THEN -1
            ELSE IF n = 6 /\ k = 5 THEN 1
            ELSE 0]]

\* (k / n) * 100
Percentage(k, n) == Float(100 * k, n, RoundingError[n][k])

\* df[col].value_counts().to_dict()
ValueCounts(df, col) ==
    [v \in {df[i][col] : i \in DOMAIN df} |->
        Cardinality({i \in DOMAIN df : df[i][col] = v})]

\* df['Is_Miscompare'].sum()
SumIsMiscompare(df) == Cardinality({i \in DOMAIN df : df[i].Is_Miscompare})

\* faulty variant: the rate is a fraction of 1, not a percentage
generate_summary_report_Fraction(df) ==
    [status |-> "returned",
     total_units |-> Len(df),
     unit_status_breakdown |-> ValueCounts(df, "Final_Status"),
     lock_status_breakdown |-> ValueCounts(df, "Actual_Lock_Status"),
     miscompare_count |-> SumIsMiscompare(df),
     miscompare_rate |-> Float(SumIsMiscompare(df), Len(df), 0),
     severity_breakdown |-> ValueCounts(df, "Miscompare_Severity")]

\* the summary of a table with at least one row
generate_summary_report(df) ==
    [status |-> "returned",
     total_units |-> Len(df),
     unit_status_breakdown |-> ValueCounts(df, "Final_Status"),
     lock_status_breakdown |-> ValueCounts(df, "Actual_Lock_Status"),
     miscompare_count |-> SumIsMiscompare(df),
     miscompare_rate |-> Percentage(SumIsMiscompare(df), Len(df)),
     severity_breakdown |-> ValueCounts(df, "Miscompare_Severity")]

\* the summary of a table without rows: the sum of the empty Is_Miscompare
\* column is a numpy 0.0, and 0.0 / 0 is NaN (run_analysis makes the same
\* call on master_df before it returns, and only logs the result)
EmptySummary ==
    [status |-> "returned",
     total_units |-> 0,
     unit_status_breakdown |-> EmptyDict,
     lock_status_breakdown |-> EmptyDict,
     miscompare_count |-> 0,
     miscompare_rate |-> FloatNaN,
     severity_breakdown |-> EmptyDict]

\* analyzer.generate_summary_report(results_df) on the table run_analysis
\* returned
GenerateSummaryReport ==
    /\ UNCHANGED <<downstream, frontends>>
    /\ ret.status = "returned"
    /\ summary' = IF Len(ret.df) = 0 THEN EmptySummary
                  ELSE generate_summary_report(ret.df)
    /\ UNCHANGED <<units_file, rentroll_file, locks_file, empty_apply_raises,
                   units_df, rentroll_df, locks_df, master_df, ret>>
    /\ UNCHANGED <<locks_format, report_df, alert_report, miscompares_sheet, seen, cli>>

(***************************************************************************)
(* ReportGenerator.generate_alert_report and the Miscompares sheet of      *)
(* EnhancedExcelExporter                                                   *)
(***************************************************************************)
\* df[df['Is_Miscompare'] == True]
Miscompares(df) == SelectSeq(df, LAMBDA row : row.Is_Miscompare = TRUE)

\* faulty variant: the two first ranks are exchanged
priority_order_Exchanged ==
    [severity \in {"HIGH - Vacant unit with tenant lock",
                   "HIGH - Current tenant without proper lock",
                   "HIGH - Delinquent unit without lock",
                   "MEDIUM - Lock status mismatch"} |->
        CASE severity = "HIGH - Vacant unit with tenant lock" -> 2
          [] severity = "HIGH - Current tenant without proper lock" -> 1
          [] severity = "HIGH - Delinquent unit without lock" -> 3
          [] severity = "MEDIUM - Lock status mismatch" -> 4]

priority_order ==
    [severity \in {"HIGH - Vacant unit with tenant lock",
                   "HIGH - Current tenant without proper lock",
                   "HIGH - Delinquent unit without lock",
                   "MEDIUM - Lock status mismatch"} |->
        CASE severity = "HIGH - Vacant unit with tenant lock" -> 1
          [] severity = "HIGH - Current tenant without proper lock" -> 2
          [] severity = "HIGH - Delinquent unit without lock" -> 3
          [] severity = "MEDIUM - Lock status mismatch" -> 4]

\* miscompares['Miscompare_Severity'].map(priority_order): NaN for a severity
\* that is no key
PriorityOf(severity) ==
    IF severity \in DOMAIN priority_order THEN N(priority_order[severity]) ELSE NaN

\* the order of sort_values: numbers ascending, NaN last
NotAfter(a, b) == b.t = "nan" \/ (a.t = "num" /\ a.n <= b.n)

\* sort_values('Priority') with the default, unstable sort: any arrangement
\* of the rows in ascending Priority
SortValues(rows) ==
    {[i \in DOMAIN rows |-> rows[p[i]]] :
        p \in {q \in Permutations(DOMAIN rows) :
                  \A i, j \in DOMAIN rows :
                      i < j => NotAfter(rows[q[i]].Priority, rows[q[j]].Priority)}}

\* 'sub' in text
Contains(text, sub) ==
    \E i \in 1..(Len(text) - Len(sub) + 1) : SubSeq(text, i, i + Len(sub) - 1) = sub

get_recommended_action(severity) ==
    IF Contains(severity, "Vacant unit with tenant lock")
    THEN "Remove tenant lock and verify unit is truly vacant"
    ELSE IF Contains(severity, "Current tenant without proper lock")
    THEN "Install proper tenant lock immediately"
    ELSE IF Contains(severity, "Delinquent unit without lock")
    THEN "Install overlock or proceed to auction"
    ELSE "Review lock assignment and correct as needed"

\* the miscompares with their Priority column
WithPriority(df) ==
    LET miscompares == Miscompares(df)
    IN  [i \in DOMAIN miscompares |->
            [Priority |-> PriorityOf(miscompares[i].Miscompare_Severity)] @@ miscompares[i]]

\* miscompares[alert_columns] of one row
AlertRow(row) ==
    [Unit |-> row.Unit,
     Final_Status |-> row.Final_Status,
     Actual_Lock_Status |-> row.Actual_Lock_Status,
     Expected_Lock_Status |-> row.Expected_Lock_Status,
     Miscompare_Severity |-> row.Miscompare_Severity,
     Priority |-> row.Priority,
     Recommended_Action |-> get_recommended_action(row.Miscompare_Severity)]

\* one row of the Miscompares sheet: every column of the table, Priority and
\* Recommended_Action
SheetRow(row) ==
    [Recommended_Action |-> get_recommended_action(row.Miscompare_Severity)] @@ row

\* analyzer_results after ReportGenerator(analyzer_results): self.df is
\* analyzer_results.copy(), a table of its own, and the argument is only read
LeftByReportGenerator(df) == df

\* faulty variant: Recommended_Action is assigned on df itself
LeftByCreateMiscomparesSheet_InPlace(df) ==
    [i \in DOMAIN df |-> SheetRow(df[i])]

\* df after _create_miscompares_sheet(wb, df): Priority and Recommended_Action
\* are assigned on miscompares, which is df[...].copy(), never on df
LeftByCreateMiscomparesSheet(df) == df

\* self.master_df after get_miscompares(): the selection is returned as a copy
LeftByGetMiscompares(df) == df

\* ReportGenerator(results_df) on the table run_analysis returned, which is
\* the analyzer's master_df itself
NewReportGenerator ==
    /\ UNCHANGED <<downstream, frontends>>
    /\ ret.status = "returned"
    /\ report_df' = DataFrame(ret.df)
    /\ master_df' = DataFrame(LeftByReportGenerator(master_df.rows))
    /\ UNCHANGED <<units_file, rentroll_file, locks_file, empty_apply_raises,
                   units_df, rentroll_df, locks_df, ret>>
    /\ UNCHANGED <<locks_format, summary, alert_report, miscompares_sheet, seen, cli>>

\* report_gen.generate_alert_report(): an empty DataFrame when nothing is
\* flagged
GenerateAlertReport ==
    /\ UNCHANGED <<downstream, frontends>>
    /\ ~report_df.none
    /\ \E sorted \in SortValues(WithPriority(report_df.rows)) :
          alert_report' = Returned([i \in DOMAIN sorted |-> AlertRow(sorted[i])])
    /\ UNCHANGED <<units_file, rentroll_file, locks_file, empty_apply_raises,
                   units_df, rentroll_df, locks_df, master_df, ret>>
    /\ UNCHANGED <<locks_format, summary, report_df, miscompares_sheet, seen, cli>>

\* EnhancedExcelExporter._create_miscompares_sheet(wb, results_df): the data
\* rows appended to the sheet after the header
CreateMiscomparesSheet ==
    /\ UNCHANGED <<downstream, frontends>>
    /\ ret.status = "returned"
    /\ \E sorted \in SortValues(WithPriority(ret.df)) :
          miscompares_sheet' = DataFrame([i \in DOMAIN sorted |-> SheetRow(sorted[i])])
    /\ master_df' = DataFrame(LeftByCreateMiscomparesSheet(master_df.rows))
    /\ UNCHANGED <<units_file, rentroll_file, locks_file, empty_apply_raises,
                   units_df, rentroll_df, locks_df, ret>>
    /\ UNCHANGED <<locks_format, summary, report_df, alert_report, seen, cli>>

\* the writer could not write the workbook
WriteFailed == [status |-> "raised", df |-> <<>>, file |-> "", missing |-> <<>>]

\* report_gen.create_detailed_report(path): the Complete_Analysis sheet is
\* self.df; there is no sheet when the workbook could not be written
CreateDetailedReport ==
    /\ ~report_df.none
    /\ detailed_report' \in {DataFrame(report_df.rows), None}
    /\ UNCHANGED <<units_file, rentroll_file, locks_file, empty_apply_raises,
                   units_df, rentroll_df, locks_df, master_df, ret>>
    /\ UNCHANGED <<locks_format, summary, report_df, alert_report,
                   miscompares_sheet, seen, cli>>
    /\ UNCHANGED <<got_miscompares, saved_results, frontends>>

\* raise ValueError("No analysis results available. Run analysis first.") and
\* raise ValueError("No analysis results to save. Run analysis first.")
RunAnalysisFirst ==
    [status |-> "raised", df |-> <<>>, file |-> "Run analysis first", missing |-> <<>>]

\* analyzer.get_miscompares()
get_miscompares(master) ==
    IF master.none THEN RunAnalysisFirst ELSE Returned(Miscompares(master.rows))

GetMiscompares ==
    /\ got_miscompares' = get_miscompares(master_df)
    /\ master_df' = IF master_df.none THEN master_df
                    ELSE DataFrame(LeftByGetMiscompares(master_df.rows))
    /\ UNCHANGED <<units_file, rentroll_file, locks_file, empty_apply_raises,
                   units_df, rentroll_df, locks_df, ret>>
    /\ UNCHANGED <<locks_format, summary, report_df, alert_report,
                   miscompares_sheet, seen, cli>>
    /\ UNCHANGED <<saved_results, detailed_report, frontends>>

\* analyzer.save_results(output_file): the Unit_Analysis sheet is master_df;
\* the workbook is written when the writer closes, which can fail
save_results(master) ==
    IF master.none THEN {RunAnalysisFirst} ELSE {Returned(master.rows), WriteFailed}

SaveResults ==
    /\ saved_results' \in save_results(master_df)
    /\ UNCHANGED <<units_file, rentroll_file, locks_file, empty_apply_raises,
                   units_df, rentroll_df, locks_df, master_df, ret>>
    /\ UNCHANGED <<locks_format, summary, report_df, alert_report,
                   miscompares_sheet, seen, cli>>
    /\ UNCHANGED <<got_miscompares, detailed_report, frontends>>

(***************************************************************************)
(* main_analyzer.main: the command-line application, step by step          *)
(***************************************************************************)
\* faulty variant: the except branch ends the process with status 0
Failed_Status0(step) == [pc |-> "exit", exit |-> 0, error |-> step]

\* main() ended in its except branch: sys.exit(1) after the step that raised
Failed(step) == [pc |-> "exit", exit |-> 1, error |-> step]

At(pc) == [pc |-> pc, exit |-> -1, error |-> ""]

\* pd.read_csv(file_path, nrows=1) raises on a workbook: a .xlsx file is a
\* zip archive, not text
ReadCsvRaises(format) == format = "xlsx"

\* summary['severity_breakdown'].get(label, 0)
Get(dict, key) == IF key \in DOMAIN dict THEN dict[key] ELSE 0

\* print(f"\n[ERROR] Analysis failed: {str(e)}")
ErrorLine ==
    [line |-> "[ERROR] Analysis failed", total_units |-> -1,
     miscompare_count |-> -1, high_severity |-> -1]

\* the block printed at the end of main(): 'High Severity Issues' is the sum
\* of the counts of the three HIGH labels
SuccessSummary(report) ==
    [line |-> "STOREDGE DAVINCI UNIT STATUS ANALYSIS COMPLETE",
     total_units |-> report.total_units,
     miscompare_count |-> report.miscompare_count,
     high_severity |->
        Get(report.severity_breakdown, "HIGH - Vacant unit with tenant lock")
        + Get(report.severity_breakdown, "HIGH - Current tenant without proper lock")
        + Get(report.severity_breakdown, "HIGH - Delinquent unit without lock")]

\* the except branch of main(), entered from the step that raised
Except(step) ==
    /\ cli' = Failed(step)
    /\ printed' = Append(printed, ErrorLine)

\* main() returns: the process ends with status 0
Done == [pc |-> "exit", exit |-> 0, error |-> ""]

DefaultArgs == [no_dashboard |-> FALSE, no_visualizations |-> FALSE]

\* validate_input_files(args.units, args.rentroll, args.locks): every file is
\* read with pd.read_csv, the locks file too
MainValidateInputFiles ==
    /\ cli.pc = "start"
    /\ IF ReadCsvRaises("csv") \/ ReadCsvRaises("csv") \/ ReadCsvRaises(locks_format)
       THEN Except("validate_input_files")
       ELSE cli' = At("validated") /\ printed' = printed
    /\ UNCHANGED <<units_file, rentroll_file, locks_file, empty_apply_raises,
                   units_df, rentroll_df, locks_df, master_df, ret>>
    /\ UNCHANGED <<locks_format, summary, report_df, alert_report,
                   miscompares_sheet, seen>>
    /\ UNCHANGED <<downstream, written, args, web, export, store>>

\* create_output_directory(args.output)
MainCreateOutputDirectory ==
    /\ cli.pc = "validated"
    /\ cli' = At("created")
    /\ UNCHANGED <<units_file, rentroll_file, locks_file, empty_apply_raises,
                   units_df, rentroll_df, locks_df, master_df, ret>>
    /\ UNCHANGED <<locks_format, summary, report_df, alert_report,
                   miscompares_sheet, seen>>
    /\ UNCHANGED <<downstream, frontends>>

\* analyzer = UnitStatusAnalyzer(); results_df = analyzer.run_analysis(...)
MainRunAnalysis ==
    /\ cli.pc = "created"
    /\ RunLoaded(load_units_file(units_file), load_rentroll_file(rentroll_file),
                 load_locks_file(locks_file))
    /\ IF ret'.status = "raised"
       THEN Except("run_analysis")
       ELSE cli' = At("analyzed") /\ printed' = printed
    /\ UNCHANGED <<units_file, rentroll_file, locks_file, empty_apply_raises>>
    /\ UNCHANGED <<locks_format, summary, report_df, alert_report,
                   miscompares_sheet, seen>>
    /\ UNCHANGED <<downstream, written, args, web, export, store>>

\* summary = analyzer.generate_summary_report(results_df);
\* report_gen = ReportGenerator(results_df)
MainGenerateSummaryReport ==
    /\ cli.pc = "analyzed"
    /\ summary' = IF Len(ret.df) = 0 THEN EmptySummary
                  ELSE generate_summary_report(ret.df)
    /\ report_df' = DataFrame(ret.df)
    /\ cli' = At("summarized")
    /\ UNCHANGED <<units_file, rentroll_file, locks_file, empty_apply_raises,
                   units_df, rentroll_df, locks_df, master_df, ret>>
    /\ UNCHANGED <<locks_format, alert_report, miscompares_sheet, seen>>
    /\ UNCHANGED <<downstream, frontends>>

\* one report-writing step of main(): the files are written and main() goes
\* on, or the step raises and main() ends in its except branch
WriteStep(step, next, files) ==
    \/ /\ cli' = At(next)
       /\ written' = written \cup files
       /\ printed' = printed
    \/ /\ Except(step)
       /\ written' = written

\* report_gen.create_detailed_report(output_path / "detailed_analysis_report.xlsx")
MainCreateDetailedReport ==
    /\ cli.pc = "summarized"
    /\ WriteStep("create_detailed_report", "detailed", {"detailed_analysis_report.xlsx"})
    /\ detailed_report' = IF cli'.pc = "exit" THEN detailed_report
                          ELSE DataFrame(report_df.rows)
    /\ UNCHANGED <<units_file, rentroll_file, locks_file, empty_apply_raises,
                   units_df, rentroll_df, locks_df, master_df, ret>>
    /\ UNCHANGED <<locks_format, summary, report_df, alert_report,
                   miscompares_sheet, seen>>
    /\ UNCHANGED <<got_miscompares, saved_results, args, web, export, store>>

\* enhanced_exporter.create_enhanced_report(results_df,
\*     output_path / "enhanced_analysis_report.xlsx")
MainCreateEnhancedReport ==
    /\ cli.pc = "detailed"
    /\ WriteStep("create_enhanced_report", "enhanced", {"enhanced_analysis_report.xlsx"})
    /\ IF cli'.pc = "exit" THEN UNCHANGED miscompares_sheet
       ELSE \E sorted \in SortValues(WithPriority(ret.df)) :
               miscompares_sheet' =
                   DataFrame([i \in DOMAIN sorted |-> SheetRow(sorted[i])])
    /\ master_df' = IF cli'.pc = "exit" THEN master_df
                    ELSE DataFrame(LeftByCreateMiscomparesSheet(master_df.rows))
    /\ UNCHANGED <<units_file, rentroll_file, locks_file, empty_apply_raises,
                   units_df, rentroll_df, locks_df, ret>>
    /\ UNCHANGED <<locks_format, summary, report_df, alert_report, seen>>
    /\ UNCHANGED <<downstream, args, web, export, store>>

\* alert_report = report_gen.generate_alert_report(); priority_alerts.csv is
\* written only when there is an alert
MainGenerateAlertReport ==
    /\ cli.pc = "enhanced"
    /\ \E sorted \in SortValues(WithPriority(report_df.rows)) :
          /\ alert_report' = Returned([i \in DOMAIN sorted |-> AlertRow(sorted[i])])
          /\ WriteStep("generate_alert_report", "alerted",
                       IF Len(sorted) = 0 THEN {} ELSE {"priority_alerts.csv"})
    /\ UNCHANGED <<units_file, rentroll_file, locks_file, empty_apply_raises,
                   units_df, rentroll_df, locks_df, master_df, ret>>
    /\ UNCHANGED <<locks_format, summary, report_df, miscompares_sheet, seen>>
    /\ UNCHANGED <<downstream, args, web, export, store>>

\* report_gen.create_summary_dashboard(output_path / "analysis_dashboard.html")
\* unless --no-dashboard
MainCreateSummaryDashboard ==
    /\ cli.pc = "alerted"
    /\ IF args.no_dashboard
       THEN cli' = At("dashboard") /\ UNCHANGED <<written, printed>>
       ELSE WriteStep("create_summary_dashboard", "dashboard", {"analysis_dashboard.html"})
    /\ UNCHANGED <<units_file, rentroll_file, locks_file, empty_apply_raises,
                   units_df, rentroll_df, locks_df, master_df, ret>>
    /\ UNCHANGED <<locks_format, summary, report_df, alert_report,
                   miscompares_sheet, seen>>
    /\ UNCHANGED <<downstream, args, web, export, store>>

\* report_gen.create_visualization_suite(output_path / "visualizations")
\* unless --no-visualizations
MainCreateVisualizationSuite ==
    /\ cli.pc = "dashboard"
    /\ IF args.no_visualizations
       THEN cli' = At("visualized") /\ UNCHANGED <<written, printed>>
       ELSE WriteStep("create_visualization_suite", "visualized", {"visualizations"})
    /\ UNCHANGED <<units_file, rentroll_file, locks_file, empty_apply_raises,
                   units_df, rentroll_df, locks_df, master_df, ret>>
    /\ UNCHANGED <<locks_format, summary, report_df, alert_report,
                   miscompares_sheet, seen>>
    /\ UNCHANGED <<downstream, args, web, export, store>>

\* results_df.to_csv(output_path / "complete_analysis_results.csv")
MainSaveRawResults ==
    /\ cli.pc = "visualized"
    /\ WriteStep("to_csv", "saved", {"complete_analysis_results.csv"})
    /\ UNCHANGED <<units_file, rentroll_file, locks_file, empty_apply_raises,
                   units_df, rentroll_df, locks_df, master_df, ret>>
    /\ UNCHANGED <<locks_format, summary, report_df, alert_report,
                   miscompares_sheet, seen>>
    /\ UNCHANGED <<downstream, args, web, export, store>>

\* the summary printed to the console, then main() returns
MainPrintSummary ==
    /\ cli.pc = "saved"
    /\ printed' = Append(printed, SuccessSummary(summary))
    /\ cli' = Done
    /\ UNCHANGED <<units_file, rentroll_file, locks_file, empty_apply_raises,
                   units_df, rentroll_df, locks_df, master_df, ret>>
    /\ UNCHANGED <<locks_format, summary, report_df, alert_report,
                   miscompares_sheet, seen>>
    /\ UNCHANGED <<downstream, written, args, web, export, store>>

(***************************************************************************)
(* streamlit_app: validation of the uploads and the 'Run Analysis' handler *)
(***************************************************************************)
\* the lower-case form of one character
LowerChar(c) ==
    CASE c = "A" -> "a" [] c = "B" -> "b" [] c = "C" -> "c" [] c = "D" -> "d"
      [] c = "E" -> "e" [] c = "F" -> "f" [] c = "G" -> "g" [] c = "H" -> "h"
      [] c = "I" -> "i" [] c = "J" -> "j" [] c = "K" -> "k" [] c = "L" -> "l"
      [] c = "M" -> "m" [] c = "N" -> "n" [] c = "O" -> "o" [] c = "P" -> "p"
      [] c = "Q" -> "q" [] c = "R" -> "r" [] c = "S" -> "s" [] c = "T" -> "t"
      [] c = "U" -> "u" [] c = "V" -> "v" [] c = "W" -> "w" [] c = "X" -> "x"
      [] c = "Y" -> "y" [] c = "Z" -> "z"
      [] OTHER -> c

\* str.lower()
RECURSIVE Lower(_)
Lower(s) ==
    IF Len(s) = 0 THEN ""
    ELSE LowerChar(CharAt(s, 1)) \o Lower(SubSeq(s, 2, Len(s)))

\* str.strip('"'): every leading and trailing double quote is removed
RECURSIVE StripQuoteChars(_)
StripQuoteChars(s) ==
    IF Len(s) > 0 /\ CharAt(s, 1) = "\""
    THEN StripQuoteChars(SubSeq(s, 2, Len(s)))
    ELSE IF Len(s) > 0 /\ CharAt(s, Len(s)) = "\""
    THEN StripQuoteChars(SubSeq(s, 1, Len(s) - 1))
    ELSE s

\* faulty variant: a column is accepted only under the expected name itself
validate_csv_file_Exact(file, expected_columns) ==
    \A k \in DOMAIN expected_columns : HasCol(file, expected_columns[k])

\* validate_csv_file(file, expected_columns, file_name)[0]: no expected name
\* is missing, a name being present when, in lower case, it is part of some
\* header cell stripped of whitespace and quotes
validate_csv_file(file, expected_columns) ==
    LET available_cols ==
            [c \in DOMAIN file.columns |-> StripQuoteChars(Strip(file.columns[c]))]
        missing_cols ==
            SelectSeq(expected_columns,
                      LAMBDA expected_col :
                          ~\E c \in DOMAIN available_cols :
                              Contains(Lower(available_cols[c]), Lower(expected_col)))
    IN  missing_cols = <<>>

\* the page after the three uploads; the three check boxes are ticked
WebUploaded ==
    [pc |-> "upload", error |-> "",
     include_dashboard |-> TRUE, include_visualizations |-> TRUE,
     include_enhanced_excel |-> TRUE,
     high_severity |-> -1, medium_severity |-> -1]

\* the except branch of the handler: 'Analysis Failed' with the error
WebFailed(step) == [web EXCEPT !.pc = "failed", !.error = step]

\* one pass over the page: the options are read and the three uploads
\* validated; the 'Run Analysis' button is shown when all three are valid
WebValidate ==
    /\ web.pc = "upload"
    /\ \E dashboard \in BOOLEAN, visualizations \in BOOLEAN, enhanced \in BOOLEAN :
          web' = [web EXCEPT
                    !.include_dashboard = dashboard,
                    !.include_visualizations = visualizations,
                    !.include_enhanced_excel = enhanced,
                    !.pc = IF /\ validate_csv_file(units_file, <<"Unit", "Status">>)
                              /\ validate_csv_file(rentroll_file, <<"Unit", "Days Past Due">>)
                              /\ validate_csv_file(locks_file, <<"Unit Number", "Status">>)
                           THEN "ready" ELSE "invalid"]
    /\ UNCHANGED <<units_file, rentroll_file, locks_file, empty_apply_raises,
                   units_df, rentroll_df, locks_df, master_df, ret>>
    /\ UNCHANGED <<locks_format, summary, report_df, alert_report,
                   miscompares_sheet, seen, cli>>
    /\ UNCHANGED <<downstream, written, printed, args, export, store>>

\* 'Run Analysis' pressed: results_df = analyzer.run_analysis(...)
WebRunAnalysis ==
    /\ web.pc = "ready"
    /\ RunLoaded(load_units_file(units_file), load_rentroll_file(rentroll_file),
                 load_locks_file(locks_file))
    /\ web' = IF ret'.status = "raised" THEN WebFailed("run_analysis")
              ELSE [web EXCEPT !.pc = "analyzed"]
    /\ UNCHANGED <<units_file, rentroll_file, locks_file, empty_apply_raises>>
    /\ UNCHANGED <<locks_format, summary, report_df, alert_report,
                   miscompares_sheet, seen, cli>>
    /\ UNCHANGED <<downstream, written, printed, args, export, store>>

\* summary = analyzer.generate_summary_report(results_df)
WebGenerateSummaryReport ==
    /\ web.pc = "analyzed"
    /\ summary' = IF Len(ret.df) = 0 THEN EmptySummary
                  ELSE generate_summary_report(ret.df)
    /\ web' = [web EXCEPT !.pc = "summarized"]
    /\ UNCHANGED <<units_file, rentroll_file, locks_file, empty_apply_raises,
                   units_df, rentroll_df, locks_df, master_df, ret>>
    /\ UNCHANGED <<locks_format, report_df, alert_report, miscompares_sheet,
                   seen, cli>>
    /\ UNCHANGED <<downstream, written, printed, args, export, store>>

\* report_gen = ReportGenerator(results_df), the enhanced workbook when it is
\* asked for, the standard workbook, the CSV text and the alert report; a
\* workbook that cannot be written ends the handler
WebGenerateReports ==
    /\ web.pc = "summarized"
    /\ report_df' = DataFrame(ret.df)
    /\ \/ /\ web' = [web EXCEPT !.pc = "reported"]
          /\ IF web.include_enhanced_excel
             THEN \E sorted \in SortValues(WithPriority(ret.df)) :
                     miscompares_sheet' =
                         DataFrame([i \in DOMAIN sorted |-> SheetRow(sorted[i])])
             ELSE UNCHANGED miscompares_sheet
          /\ detailed_report' = DataFrame(ret.df)
          /\ \E sorted \in SortValues(WithPriority(ret.df)) :
                alert_report' = Returned([i \in DOMAIN sorted |-> AlertRow(sorted[i])])
       \/ /\ web' = WebFailed("create_detailed_report")
          /\ UNCHANGED <<miscompares_sheet, detailed_report, alert_report>>
    /\ UNCHANGED <<units_file, rentroll_file, locks_file, empty_apply_raises,
                   units_df, rentroll_df, locks_df, master_df, ret>>
    /\ UNCHANGED <<locks_format, summary, seen, cli>>
    /\ UNCHANGED <<got_miscompares, saved_results, frontendsButWeb>>

\* report_gen.create_summary_dashboard(dashboard_path) when the dashboard is
\* asked for
WebCreateSummaryDashboard ==
    /\ web.pc = "reported"
    /\ web' \in {[web EXCEPT !.pc = "dashboard"]}
                 \cup (IF web.include_dashboard
                       THEN {WebFailed("create_summary_dashboard")} ELSE {})
    /\ UNCHANGED <<units_file, rentroll_file, locks_file, empty_apply_raises,
                   units_df, rentroll_df, locks_df, master_df, ret>>
    /\ UNCHANGED <<locks_format, summary, report_df, alert_report,
                   miscompares_sheet, seen, cli>>
    /\ UNCHANGED <<downstream, frontendsButWeb>>

\* _create_summary_data()['High Severity Miscompares']: the rows whose
\* severity contains 'HIGH'
HighSeverityMiscompares(df) ==
    Cardinality({i \in DOMAIN df : Contains(df[i].Miscompare_Severity, "HIGH")})

\* _create_summary_data()['Medium Severity Miscompares']
MediumSeverityMiscompares(df) ==
    Cardinality({i \in DOMAIN df : Contains(df[i].Miscompare_Severity, "MEDIUM")})

\* the methods ReportGenerator defines
ReportGeneratorMethods ==
    {"__init__", "setup_plotting_style", "create_summary_dashboard",
     "create_detailed_report", "_create_summary_data",
     "create_visualization_suite", "_create_unit_status_chart",
     "_create_lock_status_chart", "_create_miscompare_chart", "_create_heatmap",
     "generate_alert_report"}

\* report_gen.create_visualizations(viz_dir) when the charts are asked for:
\* calling a method the object does not have raises AttributeError
WebCreateVisualizations ==
    /\ web.pc = "dashboard"
    /\ web' = IF ~web.include_visualizations
              THEN [web EXCEPT !.pc = "visualized"]
              ELSE IF "create_visualizations" \in ReportGeneratorMethods
              THEN [web EXCEPT !.pc = "visualized"]
              ELSE WebFailed("create_visualizations")
    /\ UNCHANGED <<units_file, rentroll_file, locks_file, empty_apply_raises,
                   units_df, rentroll_df, locks_df, master_df, ret>>
    /\ UNCHANGED <<locks_format, summary, report_df, alert_report,
                   miscompares_sheet, seen, cli>>
    /\ UNCHANGED <<downstream, frontendsButWeb>>

\* 'Analysis complete!' and the metrics: 'High Severity' is the count of one
\* label, 'HIGH - Vacant unit with tenant lock'
WebShowResults ==
    /\ web.pc = "visualized"
    /\ web' = [web EXCEPT
                 !.pc = "complete",
                 !.high_severity =
                     Get(summary.severity_breakdown, "HIGH - Vacant unit with tenant lock"),
                 !.medium_severity =
                     Get(summary.severity_breakdown, "MEDIUM - Lock status mismatch")]
    /\ UNCHANGED <<units_file, rentroll_file, locks_file, empty_apply_raises,
                   units_df, rentroll_df, locks_df, master_df, ret>>
    /\ UNCHANGED <<locks_format, summary, report_df, alert_report,
                   miscompares_sheet, seen, cli>>
    /\ UNCHANGED <<downstream, frontendsButWeb>>

(***************************************************************************)
(* export_to_excel.export_from_analysis                                    *)
(***************************************************************************)
ExportNotStarted == [pc |-> "start", exit |-> -1, high_severity |-> -1]

\* the except branch: the error is printed and the process exits with 1
ExportFailed == [pc |-> "exit", exit |-> 1, high_severity |-> -1]

\* export_from_analysis(units_file, rentroll_file, locks_file, output_excel):
\* the analysis, the enhanced workbook and the printed summary, whose 'High
\* Severity' line is the count of 'HIGH - Vacant unit with tenant lock'
ExportFromAnalysis ==
    /\ export.pc = "start"
    /\ RunLoaded(load_units_file(units_file), load_rentroll_file(rentroll_file),
                 load_locks_file(locks_file))
    /\ IF ret'.status = "raised"
       THEN /\ export' = ExportFailed
            /\ UNCHANGED <<miscompares_sheet, summary>>
       ELSE \/ /\ export' = ExportFailed
               /\ UNCHANGED <<miscompares_sheet, summary>>
            \/ /\ \E sorted \in SortValues(WithPriority(ret'.df)) :
                     miscompares_sheet' =
                         DataFrame([i \in DOMAIN sorted |-> SheetRow(sorted[i])])
               /\ summary' = IF Len(ret'.df) = 0 THEN EmptySummary
                             ELSE generate_summary_report(ret'.df)
               /\ export' =
                     [pc |-> "exit", exit |-> 0,
                      high_severity |->
                          Get(summary'.severity_breakdown,
                              "HIGH - Vacant unit with tenant lock")]
    /\ UNCHANGED <<units_file, rentroll_file, locks_file, empty_apply_raises>>
    /\ UNCHANGED <<locks_format, report_df, alert_report, seen, cli>>
    /\ UNCHANGED <<downstream, written, printed, args, web, store>>

(***************************************************************************)
(* supabase_integration.SupabaseManager.store_analysis_results             *)
(***************************************************************************)
batch_size == 100

\* no call made: the rows of the session in the remote table, as the batches
\* inserted, each the first and the last row of results_df it holds
StoreIdle ==
    [pc |-> "idle", rows |-> 0, i |-> 0, remote |-> <<>>, result |-> "none"]

Min(a, b) == IF a < b THEN a ELSE b

\* store_analysis_results(session_id, results_df) is entered with a table of
\* some number of rows: False at once when the client could not be created
StoreAnalysisResults ==
    /\ store.pc = "idle"
    /\ \E supabase \in BOOLEAN, rows \in 0..MaxStoreRows :
          store' = IF ~supabase
                   THEN [store EXCEPT !.pc = "done", !.rows = rows, !.result = "False"]
                   ELSE [store EXCEPT !.pc = "loop", !.rows = rows]
    /\ UNCHANGED <<units_file, rentroll_file, locks_file, empty_apply_raises,
                   units_df, rentroll_df, locks_df, master_df, ret>>
    /\ UNCHANGED <<locks_format, summary, report_df, alert_report,
                   miscompares_sheet, seen, cli>>
    /\ UNCHANGED <<downstream, written, printed, args, web, export>>

\* one turn of the loop: records[i:i + batch_size] is inserted and the loop
\* goes on, or the insert gives no data or raises and the method returns
\* False; what earlier turns inserted stays in the remote table
StoreInsertBatch ==
    /\ store.pc = "loop"
    /\ store.i < store.rows
    /\ store' \in
          {[store EXCEPT
              !.remote = Append(@, <<store.i + 1, Min(store.i + batch_size, store.rows)>>),
              !.i = @ + batch_size],
           [store EXCEPT !.pc = "done", !.result = "False"]}
    /\ UNCHANGED <<units_file, rentroll_file, locks_file, empty_apply_raises,
                   units_df, rentroll_df, locks_df, master_df, ret>>
    /\ UNCHANGED <<locks_format, summary, report_df, alert_report,
                   miscompares_sheet, seen, cli>>
    /\ UNCHANGED <<downstream, written, printed, args, web, export>>

\* the loop is over: return True
StoreReturn ==
    /\ store.pc = "loop"
    /\ store.i >= store.rows
    /\ store' = [store EXCEPT !.pc = "done", !.result = "True"]
    /\ UNCHANGED <<units_file, rentroll_file, locks_file, empty_apply_raises,
                   units_df, rentroll_df, locks_df, master_df, ret>>
    /\ UNCHANGED <<locks_format, summary, report_df, alert_report,
                   miscompares_sheet, seen, cli>>
    /\ UNCHANGED <<downstream, written, printed, args, web, export>>

(***************************************************************************)
(* Inputs.                                                                 *)
(***************************************************************************)
SeqsUpTo(set, n) == UNION {[1..k -> set] : k \in 0..n}

Table(columns, rows) == [columns |-> columns, rows |-> rows]

UnitCells == {S("A1"), S("B2 ")}
StatusCells == {S("Occupied - Tenant"), S("Vacant - Available"), S("Unrentable")}

UnitsFiles ==
    {Table(<<"Unit", "Status">>, rows) :
        rows \in SeqsUpTo({<<u, s>> : u \in UnitCells, s \in StatusCells}, MaxUnits)}
    \cup {Table(<<"Unit", "State">>, <<<<S("A1"), S("Vacant")>>>>)}

RentrollUnitCells == {S(" A1")}
DaysCells == {N(0), N(45)}

RentrollFiles ==
    {Table(<<"Unit", "Days Past Due">>, rows) :
        rows \in SeqsUpTo({<<u, d>> : u \in RentrollUnitCells, d \in DaysCells}, MaxRent)}
    \cup {Table(<<"Unit", "Days">>, <<<<S("A1"), N(0)>>>>)}

LockUnitCells == {S("A1 ")}
LockStatusCells ==
    {S("Assigned Vacant"), S("Tenant Using Lock"), S("Assigned Auction"),
     S(" Assigned Overlock "), S("Broken")}

LocksFiles ==
    {Table(<<"Unit Number", "Status">>, rows) :
        rows \in SeqsUpTo({<<u, s>> : u \in LockUnitCells, s \in LockStatusCells}, MaxLocks)}
    \cup {Table(<<"Unit", "Status">>, <<<<S("A1"), S("Assigned Vacant")>>>>)}

(***************************************************************************)
(* Specification: a fresh analyzer, and run_analysis on three input files. *)
(***************************************************************************)
Fresh ==
    /\ units_df = None
    /\ rentroll_df = None
    /\ locks_df = None
    /\ master_df = None
    /\ ret = NotCalled

\* nothing fetched, saved, written, printed, shown or stored
NoOutput ==
    /\ got_miscompares = NotCalled
    /\ saved_results = NotCalled
    /\ detailed_report = None
    /\ written = {}
    /\ printed = <<>>
    /\ web = WebUploaded
    /\ export = ExportNotStarted
    /\ store = StoreIdle

\* no report made, nothing kept by the caller, main() not entered
NoReports ==
    /\ summary = NotCalled
    /\ report_df = None
    /\ alert_report = NotCalled
    /\ miscompares_sheet = None
    /\ NoOutput

NotStarted == [pc |-> "start", exit |-> -1, error |-> ""]

Idle ==
    /\ NoReports
    /\ seen = None
    /\ cli = NotStarted
    /\ locks_format = "csv"
    /\ args = DefaultArgs

Init ==
    /\ units_file \in UnitsFiles
    /\ rentroll_file \in RentrollFiles
    /\ locks_file \in LocksFiles
    /\ empty_apply_raises \in BOOLEAN
    /\ Fresh
    /\ Idle

Next == RunAnalysis

Spec == Init /\ [][Next]_vars

(***************************************************************************)
(* Properties.  Rows == the rows of the table run_analysis stored and      *)
(* returned (empty before the first successful run).                       *)
(***************************************************************************)
Rows == master_df.rows

ClosedLockSet ==
    {"Assigned Vacant", "Tenant Using Lock", "Assigned Auction", "Assigned Overlock"}

\* the compliant locks of a final status (spec 4.4)
CompliantLocks(final_status) ==
    CASE final_status = "Vacant" -> {"Assigned Vacant"}
      [] final_status = "Occupied-Current" -> {"Tenant Using Lock"}
      [] final_status = "Occupied-Delinquent" -> {"Assigned Overlock", "Assigned Auction"}

\* C1: on every row whose Final_Status is Vacant, Occupied-Current or
\* Occupied-Delinquent, Is_Miscompare is true exactly when the actual lock is
\* not in the compliant set of that status, whatever the actual lock is
\* (closed-set value, 'No Lock Assigned' or an unrecognized string).
C1_MiscompareIffNotCompliant ==
    \A i \in DOMAIN Rows :
        Rows[i].Final_Status \in {"Vacant", "Occupied-Current", "Occupied-Delinquent"}
        => (Rows[i].Is_Miscompare
            <=> Rows[i].Actual_Lock_Status \notin CompliantLocks(Rows[i].Final_Status))

\* a delinquent unit under an auction lock is compliant, a vacant unit
\* without any lock is a miscompare
C1_Witness ==
    /\ ret.status = "returned"
    /\ \E i, j \in DOMAIN Rows :
        /\ Rows[i].Final_Status = "Occupied-Delinquent"
        /\ Rows[i].Actual_Lock_Status = "Assigned Auction"
        /\ ~Rows[i].Is_Miscompare
        /\ Rows[j].Final_Status = "Vacant"
        /\ Rows[j].Actual_Lock_Status = "No Lock Assigned"
        /\ Rows[j].Is_Miscompare

\* C2: a row whose Final_Status is Unknown is never a miscompare, whatever
\* its actual lock, and its severity is 'No Issue'.
C2_UnknownNeverMiscompare ==
    \A i \in DOMAIN Rows :
        Rows[i].Final_Status = "Unknown"
        => ~Rows[i].Is_Miscompare /\ Rows[i].Miscompare_Severity = "No Issue"

\* two Unknown rows, one with an unrecognized lock and one without a lock
C2_Witness ==
    /\ ret.status = "returned"
    /\ \E i, j \in DOMAIN Rows :
        /\ Rows[i].Final_Status = "Unknown"
        /\ Rows[i].Actual_Lock_Status \notin ClosedLockSet \cup {"No Lock Assigned"}
        /\ Rows[j].Final_Status = "Unknown"
        /\ Rows[j].Actual_Lock_Status = "No Lock Assigned"

\* C3: on every row, severity is 'No Issue' if and only if Is_Miscompare is
\* false.
C3_NoIssueIffNotMiscompare ==
    \A i \in DOMAIN Rows :
        Rows[i].Miscompare_Severity = "No Issue" <=> ~Rows[i].Is_Miscompare

\* a table with a miscompare and a compliant row
C3_Witness ==
    /\ ret.status = "returned"
    /\ \E i, j \in DOMAIN Rows :
        /\ Rows[i].Is_Miscompare
        /\ Rows[i].Miscompare_Severity # "No Issue"
        /\ ~Rows[j].Is_Miscompare
        /\ Rows[j].Final_Status # "Unknown"

\* the severity rules of spec 4.4 as a table of (final status, actual lock)
HighVacant == {<<"Vacant", "Tenant Using Lock">>, <<"Vacant", "Assigned Overlock">>}
HighCurrent ==
    {<<"Occupied-Current", "Assigned Vacant">>, <<"Occupied-Current", "Assigned Overlock">>}
HighDelinquent == {<<"Occupied-Delinquent", "Assigned Vacant">>}

SeverityRule(final_status, actual) ==
    IF <<final_status, actual>> \in HighVacant
    THEN "HIGH - Vacant unit with tenant lock"
    ELSE IF <<final_status, actual>> \in HighCurrent
    THEN "HIGH - Current tenant without proper lock"
    ELSE IF <<final_status, actual>> \in HighDelinquent
    THEN "HIGH - Delinquent unit without lock"
    ELSE "MEDIUM - Lock status mismatch"

\* C4: on every miscompare row the severity is the one of the first matching
\* rule of the table; in particular Vacant or Occupied-Current with Assigned
\* Auction, Occupied-Delinquent with Tenant Using Lock, and any status with
\* 'No Lock Assigned' or an unrecognized lock are MEDIUM.
C4_SeverityByFirstRule ==
    \A i \in DOMAIN Rows :
        Rows[i].Is_Miscompare
        => /\ Rows[i].Miscompare_Severity
                = SeverityRule(Rows[i].Final_Status, Rows[i].Actual_Lock_Status)
           /\ (\/ Rows[i].Actual_Lock_Status \notin ClosedLockSet
               \/ Rows[i].Actual_Lock_Status = "Assigned Auction"
               \/ /\ Rows[i].Final_Status = "Occupied-Delinquent"
                  /\ Rows[i].Actual_Lock_Status = "Tenant Using Lock")
              => Rows[i].Miscompare_Severity = "MEDIUM - Lock status mismatch"

\* a current tenant under an overlock (rule 2) beside a unit without lock
\* (rule 4)
C4_Witness ==
    /\ ret.status = "returned"
    /\ \E i, j \in DOMAIN Rows :
        /\ Rows[i].Final_Status = "Occupied-Current"
        /\ Rows[i].Actual_Lock_Status = "Assigned Overlock"
        /\ Rows[i].Miscompare_Severity = "HIGH - Current tenant without proper lock"
        /\ Rows[j].Actual_Lock_Status = "No Lock Assigned"
        /\ Rows[j].Miscompare_Severity = "MEDIUM - Lock status mismatch"

\* the rentroll records of a unit, and the payment status the mapping keeps
InRentroll(unit) == \E j \in DOMAIN rentroll_df.rows : rentroll_df.rows[j].Unit = unit

LastRentrollRow(unit) ==
    CHOOSE j \in DOMAIN rentroll_df.rows :
        /\ rentroll_df.rows[j].Unit = unit
        /\ \A k \in DOMAIN rentroll_df.rows : rentroll_df.rows[k].Unit = unit => k <= j

\* C5: row i of the result carries the unit and occupancy of unit row i, and
\* its Final_Status is Vacant for a Vacant unit (rentroll entry or not),
\* Occupied-<payment status> for an Occupied unit of the rentroll, Vacant for
\* an Occupied unit absent from the rentroll, Unknown for an Unknown unit; so
\* it is one of the four values, and Unknown only for occupancy Unknown.
C5_FinalStatusRule ==
    ret.status = "returned" =>
        /\ Len(Rows) = Len(units_df.rows)
        /\ \A i \in DOMAIN Rows :
            LET unit == units_df.rows[i].Unit
                occupancy == units_df.rows[i].Unit_Status
                final == Rows[i].Final_Status
            IN  /\ Rows[i].Unit = unit
                /\ Rows[i].Unit_Status = occupancy
                /\ occupancy = "Vacant" => final = "Vacant"
                /\ occupancy = "Occupied" /\ InRentroll(unit) =>
                      LET payment == rentroll_df.rows[LastRentrollRow(unit)].Payment_Status
                      IN  /\ payment = "Current" => final = "Occupied-Current"
                          /\ payment = "Delinquent" => final = "Occupied-Delinquent"
                          /\ payment \in {"Current", "Delinquent"}
                /\ occupancy = "Occupied" /\ ~InRentroll(unit) => final = "Vacant"
                /\ occupancy = "Unknown" => final = "Unknown"
                /\ final = "Unknown" => occupancy = "Unknown"
                /\ final \in {"Vacant", "Occupied-Current", "Occupied-Delinquent", "Unknown"}

\* a Vacant unit with a delinquent rentroll entry beside an Occupied unit
\* absent from the rentroll: both Vacant
C5_Witness ==
    /\ ret.status = "returned"
    /\ \E i, j \in DOMAIN Rows :
        /\ units_df.rows[i].Unit_Status = "Vacant"
        /\ InRentroll(Rows[i].Unit)
        /\ rentroll_df.rows[LastRentrollRow(Rows[i].Unit)].Payment_Status = "Delinquent"
        /\ Rows[i].Final_Status = "Vacant"
        /\ units_df.rows[j].Unit_Status = "Occupied"
        /\ ~InRentroll(Rows[j].Unit)
        /\ Rows[j].Final_Status = "Vacant"

\* C6: end to end, a unit whose status prefix is OCC and which has no rentroll
\* row gets final status Vacant and expected lock 'Assigned Vacant', is a
\* miscompare exactly when its actual lock is not 'Assigned Vacant', is HIGH
\* 'Vacant unit with tenant lock' under Tenant Using Lock or Assigned
\* Overlock; and a run with such a unit raises only for a missing column.
C6_OccupiedWithoutRentroll ==
    /\ ret.status = "returned" =>
        \A i \in DOMAIN Rows :
            units_df.rows[i].Status_Clean = "OCC" /\ ~InRentroll(units_df.rows[i].Unit)
            => /\ Rows[i].Final_Status = "Vacant"
               /\ Rows[i].Expected_Lock_Status = "Assigned Vacant"
               /\ Rows[i].Is_Miscompare <=> Rows[i].Actual_Lock_Status # "Assigned Vacant"
               /\ Rows[i].Actual_Lock_Status \in {"Tenant Using Lock", "Assigned Overlock"}
                  => Rows[i].Miscompare_Severity = "HIGH - Vacant unit with tenant lock"
    /\ ret.status = "raised" /\ Len(units_file.rows) > 0 => ret.missing # <<>>

\* an occupied unit without rentroll row under a tenant lock
C6_Witness ==
    /\ ret.status = "returned"
    /\ \E i \in DOMAIN Rows :
        /\ units_df.rows[i].Status_Clean = "OCC"
        /\ ~InRentroll(units_df.rows[i].Unit)
        /\ Rows[i].Actual_Lock_Status = "Tenant Using Lock"
        /\ Rows[i].Miscompare_Severity = "HIGH - Vacant unit with tenant lock"

\* C7: the returned table has exactly one row per distinct unit id of the
\* units input.
C7_OneRowPerDistinctUnit ==
    ret.status = "returned" =>
        Len(Rows) = Cardinality({units_df.rows[i].Unit : i \in DOMAIN units_df.rows})

\* the either-of descriptor of a list of lock names
RECURSIVE EitherOf(_)
EitherOf(names) ==
    IF Len(names) = 1 THEN names[1]
    ELSE names[1] \o " or " \o EitherOf(Tail(names))

\* C8: Expected_Lock_Status is a lookup on Final_Status alone: 'Assigned
\* Vacant' for Vacant, 'Tenant Using Lock' for Occupied-Current, the either-of
\* descriptor of Assigned Overlock and Assigned Auction for
\* Occupied-Delinquent, 'Unknown' for Unknown; it is the entry of the
\* analyzer's expected_lock_status table for the three non-Unknown statuses.
C8_ExpectedLockLookup ==
    \A i \in DOMAIN Rows :
        LET final == Rows[i].Final_Status
            expected == Rows[i].Expected_Lock_Status
        IN  /\ final = "Vacant" => expected = "Assigned Vacant"
            /\ final = "Occupied-Current" => expected = "Tenant Using Lock"
            /\ final = "Occupied-Delinquent" =>
                  expected = "Assigned Overlock or Assigned Auction"
            /\ final = "Unknown" => expected = "Unknown"
            /\ final \in DOMAIN expected_lock_status =>
                  expected = EitherOf(expected_lock_status[final])
            /\ \A j \in DOMAIN Rows :
                  Rows[j].Final_Status = final => Rows[j].Expected_Lock_Status = expected

\* a delinquent row and an Unknown row, for different units and locks
C8_Witness ==
    /\ ret.status = "returned"
    /\ \E i, j \in DOMAIN Rows :
        /\ Rows[i].Final_Status = "Occupied-Delinquent"
        /\ Rows[i].Expected_Lock_Status = "Assigned Overlock or Assigned Auction"
        /\ Rows[j].Final_Status = "Unknown"
        /\ Rows[j].Expected_Lock_Status = "Unknown"
        /\ Rows[i].Unit # Rows[j].Unit
        /\ Rows[i].Actual_Lock_Status # Rows[j].Actual_Lock_Status

\* the lock records of a unit, and the one the mapping keeps
InLocks(unit) == \E j \in DOMAIN locks_df.rows : locks_df.rows[j].Unit = unit

LastLockRow(unit) ==
    CHOOSE j \in DOMAIN locks_df.rows :
        /\ locks_df.rows[j].Unit = unit
        /\ \A k \in DOMAIN locks_df.rows : locks_df.rows[k].Unit = unit => k <= j

\* C9: on every row, Actual_Lock_Status is 'No Lock Assigned' if the unit id
\* is absent from the lock records, and otherwise the lock status recorded
\* for that unit id (of its last record).
C9_ActualLockFromRecords ==
    ret.status = "returned" =>
        \A i \in DOMAIN Rows :
            IF InLocks(Rows[i].Unit)
            THEN Rows[i].Actual_Lock_Status
                    = locks_df.rows[LastLockRow(Rows[i].Unit)].Lock_Status
            ELSE Rows[i].Actual_Lock_Status = "No Lock Assigned"

\* one unit with a lock record and one without
C9_Witness ==
    /\ ret.status = "returned"
    /\ \E i, j \in DOMAIN Rows :
        /\ InLocks(Rows[i].Unit)
        /\ Rows[i].Actual_Lock_Status = "Assigned Overlock"
        /\ ~InLocks(Rows[j].Unit)
        /\ Rows[j].Actual_Lock_Status = "No Lock Assigned"

(***************************************************************************)
(* Specification of the occupancy classification: one unit whose Status is *)
(* any text of at most MaxStatusLen characters, or missing.                *)
(***************************************************************************)
StatusAlphabet == {"O", "o", "c", "V", "a", " "}

RECURSIVE Texts(_)
Texts(k) ==
    IF k = 0 THEN {""}
    ELSE LET shorter == Texts(k - 1)
         IN  shorter \cup {text \o c : text \in shorter, c \in StatusAlphabet}

AnyStatusCells == {S(text) : text \in Texts(MaxStatusLen) \ {""}} \cup {NaN}

InitStatus ==
    /\ units_file \in {Table(<<"Unit", "Status">>, <<<<S("A1"), status>>>>) :
                          status \in AnyStatusCells}
    /\ rentroll_file = Table(<<"Unit", "Days Past Due">>, <<<<S("A1"), N(45)>>>>)
    /\ locks_file = Table(<<"Unit Number", "Status">>, <<<<S("A1"), S("Tenant Using Lock")>>>>)
    /\ empty_apply_raises \in BOOLEAN
    /\ Fresh
    /\ Idle

SpecStatus == InitStatus /\ [][Next]_vars

\* the occupancy a raw Status cell stands for: its first three characters
\* spell OCC or VAC in any letter case
PrefixSpells(cell, c1, c2, c3) ==
    /\ cell.t = "str"
    /\ Len(cell.s) >= 3
    /\ CharAt(cell.s, 1) \in c1
    /\ CharAt(cell.s, 2) \in c2
    /\ CharAt(cell.s, 3) \in c3

Occupancy(cell) ==
    IF PrefixSpells(cell, {"O", "o"}, {"C", "c"}, {"C", "c"}) THEN "Occupied"
    ELSE IF PrefixSpells(cell, {"V", "v"}, {"A", "a"}, {"C", "c"}) THEN "Vacant"
    ELSE "Unknown"

\* C10: after load_units_file, Unit_Status is Occupied or Vacant when the
\* first 3 characters of the raw Status, upper-cased, are OCC or VAC, and
\* Unknown for any other prefix, a shorter status or a missing status; it is
\* always one of Occupied, Vacant, Unknown.
C10_OccupancyByPrefix ==
    \A i \in DOMAIN units_df.rows :
        /\ units_df.rows[i].Status = units_file.rows[i][2]
        /\ units_df.rows[i].Unit_Status = Occupancy(units_file.rows[i][2])
        /\ units_df.rows[i].Unit_Status \in {"Occupied", "Vacant", "Unknown"}

\* a lower-case prefix is recognised
C10_Witness ==
    /\ ~units_df.none
    /\ \E i \in DOMAIN units_df.rows :
        /\ units_df.rows[i].Status = S("occ")
        /\ units_df.rows[i].Unit_Status = "Occupied"

(***************************************************************************)
(* Specification of the rentroll loader: one occupied unit, and a rentroll *)
(* of at most MaxRentRows rows whose days-past-due cells are numbers,      *)
(* blanks, numerals as text and other text.                                *)
(***************************************************************************)
WideDaysCells ==
    {N(0), N(45), N(-3), NaN, S("abc"), S("12"), S(" 7 "), S("-5"), S("0"), S("1x")}

InitRentroll ==
    /\ units_file = Table(<<"Unit", "Status">>, <<<<S("A1"), S("Occupied")>>>>)
    /\ rentroll_file \in
          {Table(<<"Unit", "Days Past Due">>, rows) :
              rows \in SeqsUpTo({<<S("A1"), d>> : d \in WideDaysCells}, MaxRentRows)}
    /\ locks_file = Table(<<"Unit Number", "Status">>, <<<<S("A1"), S("Tenant Using Lock")>>>>)
    /\ empty_apply_raises \in BOOLEAN
    /\ Fresh
    /\ Idle

SpecRentroll == InitRentroll /\ [][Next]_vars

\* what a raw days-past-due cell says: a number of days, or nothing (a blank
\* or text that is no number)
NoDays == [parsed |-> FALSE, days |-> 0]
Days(n) == [parsed |-> TRUE, days |-> n]

ParsedDays(cell) ==
    CASE cell = N(0) -> Days(0)
      [] cell = N(45) -> Days(45)
      [] cell = N(-3) -> Days(-3)
      [] cell = S("12") -> Days(12)
      [] cell = S(" 7 ") -> Days(7)
      [] cell = S("-5") -> Days(-5)
      [] cell = S("0") -> Days(0)
      [] OTHER -> NoDays

\* C11: every rentroll row is kept; its Payment_Status is Delinquent exactly
\* when the parsed days-past-due value is > 0 and Current otherwise; a blank
\* or unparsable value counts as 0 days, hence Current.
C11_PaymentStatusByDays ==
    /\ ret.status # "none" =>
          /\ ~rentroll_df.none
          /\ Len(rentroll_df.rows) = Len(rentroll_file.rows)
    /\ \A i \in DOMAIN rentroll_df.rows :
          LET parsed == ParsedDays(rentroll_file.rows[i][2])
              row == rentroll_df.rows[i]
          IN  /\ row.Days_Past_Due_Clean = (IF parsed.parsed THEN parsed.days ELSE 0)
              /\ row.Payment_Status =
                    (IF parsed.parsed /\ parsed.days > 0 THEN "Delinquent" ELSE "Current")

\* a rentroll with a row of unparsable text and a row that is past due
C11_Witness ==
    /\ ~rentroll_df.none
    /\ \E i, j \in DOMAIN rentroll_df.rows :
          /\ rentroll_file.rows[i][2] = S("abc")
          /\ rentroll_df.rows[i].Payment_Status = "Current"
          /\ rentroll_file.rows[j][2] = S("12")
          /\ rentroll_df.rows[j].Payment_Status = "Delinquent"

(***************************************************************************)
(* Specification of the locks loader: one vacant unit, and at most         *)
(* MaxLockRows lock records whose Status is a value of the closed set,     *)
(* one with surrounding whitespace or other letter case, another text, or  *)
(* missing.                                                                *)
(***************************************************************************)
WideLockStatusCells ==
    {S("Assigned Vacant"), S("Tenant Using Lock"), S(" Assigned Overlock "),
     S("assigned vacant"), S("Broken"), S("Broken\t"), S(" In Repair"), S("Assigned"),
     S(" "), NaN}

InitLocks ==
    /\ units_file = Table(<<"Unit", "Status">>, <<<<S("A1"), S("Vacant")>>>>)
    /\ rentroll_file = Table(<<"Unit", "Days Past Due">>, <<>>)
    /\ locks_file \in
          {Table(<<"Unit Number", "Status">>, rows) :
              rows \in SeqsUpTo({<<u, st>> : u \in {S("A1"), S("Z9")},
                                              st \in WideLockStatusCells}, MaxLockRows)}
    /\ empty_apply_raises \in BOOLEAN
    /\ Fresh
    /\ Idle

SpecLocks == InitLocks /\ [][Next]_vars

\* out is raw without its surrounding whitespace
IsTrimOf(out, raw) ==
    \E i, j \in 0..Len(raw) :
        /\ i <= j
        /\ out = SubSeq(raw, i + 1, j)
        /\ \A k \in (1..i) \cup ((j + 1)..Len(raw)) : CharAt(raw, k) \in Whitespace
        /\ i < j => CharAt(raw, i + 1) \notin Whitespace /\ CharAt(raw, j) \notin Whitespace

\* C12 as stated: a raw lock status outside the closed set is retained as it
\* is in Lock_Status.
C12_RetainedAsIs ==
    \A i \in DOMAIN locks_df.rows :
        LET raw == locks_file.rows[i][2]
        IN  raw.t = "str" /\ raw.s \notin valid_lock_statuses =>
                locks_df.rows[i].Lock_Status = raw.s

\* C12, amended: every lock record is kept; Lock_Status is the raw status
\* without its surrounding whitespace ('nan' for a missing status), so a
\* status whose trimmed text is outside the closed set is never turned into
\* a closed-set value; Actual_Lock_Status of a unit is 'No Lock Assigned' or
\* the Lock_Status of one of the unit's lock records.
C12_RetainedTrimmed ==
    /\ ret.status # "none" =>
          /\ ~locks_df.none
          /\ Len(locks_df.rows) = Len(locks_file.rows)
    /\ \A i \in DOMAIN locks_df.rows :
          LET raw == locks_file.rows[i][2]
              kept == locks_df.rows[i].Lock_Status
          IN  /\ raw.t = "str" => IsTrimOf(kept, raw.s)
              /\ raw.t = "nan" => kept = "nan"
              /\ kept \in valid_lock_statuses =>
                    /\ raw.t = "str"
                    /\ \E v \in valid_lock_statuses : IsTrimOf(v, raw.s)
    /\ \A i \in DOMAIN master_df.rows :
          \/ master_df.rows[i].Actual_Lock_Status = "No Lock Assigned"
          \/ \E k \in DOMAIN locks_df.rows :
                /\ locks_df.rows[k].Unit = master_df.rows[i].Unit
                /\ locks_df.rows[k].Lock_Status = master_df.rows[i].Actual_Lock_Status

\* an unrecognised status with surrounding whitespace reaches the output
\* trimmed, not replaced
C12_Witness ==
    /\ ret.status = "returned"
    /\ \E i \in DOMAIN locks_file.rows : locks_file.rows[i][2] = S(" In Repair")
    /\ \E i \in DOMAIN master_df.rows : master_df.rows[i].Actual_Lock_Status = "In Repair"

(***************************************************************************)
(* Specification of required-column validation: every input has one row    *)
(* and one of several headers, with or without its required columns.       *)
(***************************************************************************)
UnitsHeaders ==
    {<<"Unit", "Status">>, <<"Status", "Unit">>, <<"Unit", "State">>,
     <<"Id", "Status">>, <<"Id", "State">>}

RentrollHeaders ==
    {<<"Unit", "Days Past Due">>, <<"UNIT", "Days Past Due">>, <<"Unit", "Days">>,
     <<"Id", "Days Past Due">>, <<"Id", "Days">>}

LocksHeaders ==
    {<<"Unit Number", "Status">>, <<"Unit", "Status">>, <<"Unit Number", "State">>,
     <<"Lock", "State">>}

InitCols ==
    /\ units_file \in {Table(h, <<<<S("A1"), S("Vacant")>>>>) : h \in UnitsHeaders}
    /\ rentroll_file \in {Table(h, <<<<S("A1"), N(0)>>>>) : h \in RentrollHeaders}
    /\ locks_file \in {Table(h, <<<<S("A1"), S("Assigned Vacant")>>>>) : h \in LocksHeaders}
    /\ empty_apply_raises \in BOOLEAN
    /\ Fresh
    /\ Idle

SpecCols == InitCols /\ [][Next]_vars

\* the required columns the header of an input lacks
LackingColumns(file, header) ==
    CASE <<file, header>> = <<"units.csv", <<"Unit", "State">> >> -> <<"Status">>
      [] <<file, header>> = <<"units.csv", <<"Id", "Status">> >> -> <<"Unit">>
      [] <<file, header>> = <<"units.csv", <<"Id", "State">> >> -> <<"Unit", "Status">>
      [] <<file, header>> = <<"rentroll.csv", <<"Unit", "Days">> >> -> <<"Days Past Due">>
      [] <<file, header>> = <<"rentroll.csv", <<"Id", "Days Past Due">> >> -> <<"Unit">>
      [] <<file, header>> = <<"rentroll.csv", <<"Id", "Days">> >> -> <<"Unit", "Days Past Due">>
      [] <<file, header>> = <<"locks.csv", <<"Unit", "Status">> >> -> <<"Unit Number">>
      [] <<file, header>> = <<"locks.csv", <<"Unit Number", "State">> >> -> <<"Status">>
      [] <<file, header>> = <<"locks.csv", <<"Lock", "State">> >> -> <<"Unit Number", "Status">>
      [] OTHER -> <<>>

\* the inputs at fault: file name and lacking columns
FaultyInputs ==
    {f \in {[file |-> "units.csv",
             missing |-> LackingColumns("units.csv", units_file.columns)],
            [file |-> "rentroll.csv",
             missing |-> LackingColumns("rentroll.csv", rentroll_file.columns)],
            [file |-> "locks.csv",
             missing |-> LackingColumns("locks.csv", locks_file.columns)]} :
        f.missing # <<>>}

\* C13: when an input lacks a required column, run_analysis raises an error
\* that names an input at fault and the columns it lacks, whatever the other
\* inputs are; it returns no table and stores none.
C13_MissingColumnFails ==
    ret.status # "none" /\ FaultyInputs # {} =>
        /\ ret.status = "raised"
        /\ [file |-> ret.file, missing |-> ret.missing] \in FaultyInputs
        /\ ret.df = <<>>
        /\ master_df.none

\* only the locks input is at fault: the run fails after the two other
\* inputs were loaded
C13_Witness ==
    /\ ret = Raised("locks.csv", <<"Unit Number">>)
    /\ ~units_df.none
    /\ ~rentroll_df.none
    /\ master_df.none

(***************************************************************************)
(* Specification of header spellings: every input has its required         *)
(* columns, spelled with other letter case, surrounding whitespace or      *)
(* surrounding quotes.                                                     *)
(***************************************************************************)
UnitSpellings == {"Unit", "UNIT", "unit", " Unit ", "\"Unit\""}
StatusSpellings == {"Status", "STATUS"}
DaysSpellings == {"Days Past Due", "DAYS PAST DUE", "days past due", "\"Days Past Due\""}
UnitNumberSpellings == {"Unit Number", "unit number", "\"Unit Number\""}
LockStatusSpellings == {"Status", " Status"}

InitHeaders ==
    /\ units_file \in {Table(<<u, st>>, <<<<S("A1"), S("Vacant")>>>>) :
                          u \in UnitSpellings, st \in StatusSpellings}
    /\ rentroll_file \in {Table(<<u, d>>, <<<<S("A1"), N(0)>>>>) :
                             u \in UnitSpellings \ {" Unit "}, d \in DaysSpellings}
    /\ locks_file \in {Table(<<u, st>>, <<<<S("A1"), S("Assigned Vacant")>>>>) :
                          u \in UnitNumberSpellings, st \in LockStatusSpellings}
    /\ empty_apply_raises \in BOOLEAN
    /\ Fresh
    /\ Idle

SpecHeaders == InitHeaders /\ [][Next]_vars

\* a column name without surrounding whitespace and quotes, in upper case
StripQuotes(name) ==
    IF Len(name) >= 2 /\ CharAt(name, 1) = "\"" /\ CharAt(name, Len(name)) = "\""
    THEN SubSeq(name, 2, Len(name) - 1)
    ELSE name

Tolerant(name) == Upper(Strip(StripQuotes(Strip(name))))

HasTolerant(file, required) ==
    \A k \in DOMAIN required :
        \E c \in DOMAIN file.columns : Tolerant(file.columns[c]) = Tolerant(required[k])

\* C14: inputs whose headers are the required names up to letter case,
\* surrounding whitespace and surrounding quotes pass required-column
\* validation and are analyzed.
C14_TolerantColumnNames ==
    /\ ret.status # "none"
    /\ HasTolerant(units_file, <<"Unit", "Status">>)
    /\ HasTolerant(rentroll_file, <<"Unit", "Days Past Due">>)
    /\ HasTolerant(locks_file, <<"Unit Number", "Status">>)
    => ret.status = "returned"

(***************************************************************************)
(* Specification of the summary: at most MaxSummaryRows unit rows of one   *)
(* unit, occupied and current or vacant, and one lock record.              *)
(***************************************************************************)
InitSummary ==
    /\ units_file \in
          {Table(<<"Unit", "Status">>, rows) :
              rows \in SeqsUpTo({<<S("A1"), S("Occupied")>>, <<S("A1"), S("Vacant")>>},
                                MaxSummaryRows)}
    /\ rentroll_file = Table(<<"Unit", "Days Past Due">>, <<<<S("A1"), N(0)>>>>)
    /\ locks_file \in
          {Table(<<"Unit Number", "Status">>, <<<<S("A1"), st>>>>) :
              st \in {S("Tenant Using Lock"), S("Assigned Vacant"), S("Assigned Overlock")}}
    /\ empty_apply_raises \in BOOLEAN
    /\ Fresh
    /\ Idle

NextSummary == RunAnalysis \/ GenerateSummaryReport

SpecSummary == InitSummary /\ [][NextSummary]_vars

\* the number of rows of the returned table that are flagged
RECURSIVE Flagged(_)
Flagged(k) ==
    IF k = 0 THEN 0
    ELSE Flagged(k - 1) + (IF ret.df[k].Is_Miscompare THEN 1 ELSE 0)

SummaryCounts ==
    /\ summary.total_units = Len(ret.df)
    /\ summary.miscompare_count = Flagged(Len(ret.df))

\* C15 as stated: for a non-empty table total_units is the number of rows,
\* miscompare_count the number of flagged rows, and miscompare_rate x
\* total_units = 100 x miscompare_count, with 0 <= miscompare_rate <= 100.
C15_RateIsExactPercentage ==
    summary.status = "returned" /\ Len(ret.df) > 0 =>
        /\ SummaryCounts
        /\ ~summary.miscompare_rate.nan
        /\ summary.miscompare_rate.err = 0
        /\ summary.miscompare_rate.num * summary.total_units
              = 100 * summary.miscompare_count * summary.miscompare_rate.den

\* C15, amended: for a non-empty table the summary is returned, total_units
\* is the number of rows, miscompare_count the number of flagged rows, and
\* miscompare_rate is miscompare_count / total_units x 100 up to one float64
\* rounding error, within 0..100.
C15_RateIsRoundedPercentage ==
    summary.status = "returned" /\ Len(ret.df) > 0 =>
        LET rate == summary.miscompare_rate
        IN  /\ SummaryCounts
            /\ ~rate.nan
            /\ rate.den > 0
            /\ rate.num * summary.total_units = 100 * summary.miscompare_count * rate.den
            /\ rate.err \in {-1, 0, 1}
            /\ 0 <= rate.num /\ rate.num <= 100 * rate.den
            /\ rate.num = 0 => rate.err >= 0
            /\ rate.num = 100 * rate.den => rate.err <= 0

\* one flagged row of three: the rate is 33.33333333333333
C15_Witness ==
    /\ summary.status = "returned"
    /\ summary.total_units = 3
    /\ summary.miscompare_count = 1
    /\ summary.miscompare_rate.err = -1

(***************************************************************************)
(* Specification of repeated runs: one analyzer, any number of             *)
(* run_analysis calls, each on any of a few inputs, some of them faulty.   *)
(***************************************************************************)
RunsUnitsFiles ==
    {Table(<<"Unit", "Status">>, <<<<S("A1"), S("Occupied")>>>>),
     Table(<<"Unit", "Status">>, <<<<S("A1"), S("Vacant")>>, <<S("B2"), S("Occupied")>>>>),
     Table(<<"Unit", "Status">>, <<>>),
     Table(<<"Unit", "State">>, <<<<S("A1"), S("Vacant")>>>>)}

RunsRentrollFiles ==
    {Table(<<"Unit", "Days Past Due">>, <<<<S("A1"), N(45)>>>>),
     Table(<<"Unit", "Days">>, <<<<S("A1"), N(0)>>>>)}

RunsLocksFiles ==
    {Table(<<"Unit Number", "Status">>, <<<<S("A1"), S("Assigned Overlock")>>>>),
     Table(<<"Unit", "Status">>, <<<<S("A1"), S("Assigned Vacant")>>>>)}

InitRuns ==
    /\ units_file = Table(<<"Unit", "Status">>, <<>>)
    /\ rentroll_file = Table(<<"Unit", "Days Past Due">>, <<>>)
    /\ locks_file = Table(<<"Unit Number", "Status">>, <<>>)
    /\ empty_apply_raises \in BOOLEAN
    /\ Fresh
    /\ Idle

NextRuns ==
    \E u \in RunsUnitsFiles, r \in RunsRentrollFiles, l \in RunsLocksFiles :
        RunAnalysisOn(u, r, l)

SpecRuns == InitRuns /\ [][NextRuns]_vars

\* C16: a run_analysis call on the inputs of an earlier call of the same
\* analyzer has the outcome of that earlier call (the same table, row for
\* row, or the same error), whatever was run in between.
C16_SameInputsSameResult ==
    ~seen.none /\ seen.files = <<units_file, rentroll_file, locks_file>> =>
        ret = seen.ret

\* a table was returned, then other inputs were run, then the first inputs
\* again
C16_Witness ==
    /\ ~seen.none
    /\ seen.other
    /\ seen.files = <<units_file, rentroll_file, locks_file>>
    /\ seen.ret.status = "returned"
    /\ Len(seen.ret.df) = 2
    /\ ret = seen.ret

(***************************************************************************)
(* Specification of the alert report and the Miscompares sheet: at most    *)
(* MaxUnits rows of two units, A1 current and B2 delinquent when occupied, *)
(* and one lock record for each.                                           *)
(***************************************************************************)
AlertLockCells == {S("Tenant Using Lock"), S("Assigned Vacant"), S("Assigned Overlock")}

InitAlerts ==
    /\ units_file \in
          {Table(<<"Unit", "Status">>, rows) :
              rows \in SeqsUpTo({<<u, st>> : u \in {S("A1"), S("B2")},
                                              st \in {S("Occupied"), S("Vacant")}},
                                MaxUnits)}
    /\ rentroll_file = Table(<<"Unit", "Days Past Due">>,
                             <<<<S("A1"), N(0)>>, <<S("B2"), N(45)>>>>)
    /\ locks_file \in
          {Table(<<"Unit Number", "Status">>, <<<<S("A1"), a>>, <<S("B2"), b>>>>) :
              a \in AlertLockCells, b \in AlertLockCells}
    /\ empty_apply_raises \in BOOLEAN
    /\ Fresh
    /\ Idle

NextAlerts ==
    \/ RunAnalysis
    \/ NewReportGenerator
    \/ GenerateAlertReport
    \/ CreateMiscomparesSheet

SpecAlerts == InitAlerts /\ [][NextAlerts]_vars

\* the rank of a severity
Rank(severity) ==
    CASE severity = "HIGH - Vacant unit with tenant lock" -> 1
      [] severity = "HIGH - Current tenant without proper lock" -> 2
      [] severity = "HIGH - Delinquent unit without lock" -> 3
      [] severity = "MEDIUM - Lock status mismatch" -> 4
      [] OTHER -> 0

\* what an alert row or a sheet row says of a unit row
Finding(row) ==
    <<row.Unit, row.Final_Status, row.Actual_Lock_Status, row.Expected_Lock_Status,
      row.Miscompare_Severity>>

\* listed holds exactly the flagged rows of the analysis table, each as often
\* as the table has it
ExactlyTheFlagged(listed) ==
    /\ Len(listed) = Cardinality({i \in DOMAIN Rows : Rows[i].Is_Miscompare})
    /\ \A i \in DOMAIN Rows :
          Rows[i].Is_Miscompare =>
              Cardinality({k \in DOMAIN listed : Finding(listed[k]) = Finding(Rows[i])})
                = Cardinality({j \in DOMAIN Rows :
                                  Rows[j].Is_Miscompare /\ Finding(Rows[j]) = Finding(Rows[i])})

\* every row has the rank of its severity, a number of 1..4, and no row
\* comes before a row of a smaller rank
Ranked(listed) ==
    /\ \A k \in DOMAIN listed :
          /\ listed[k].Priority = N(Rank(listed[k].Miscompare_Severity))
          /\ listed[k].Priority.n \in 1..4
    /\ \A k, l \in DOMAIN listed : k < l => listed[k].Priority.n <= listed[l].Priority.n

\* C17: the alert report holds exactly the flagged rows (it is empty exactly
\* when no row is flagged), each with Priority 1..4 by severity, in
\* non-decreasing Priority; the Miscompares sheet holds the same rows with
\* the same ranks, in non-decreasing Priority.
C17_AlertsRankedAndSorted ==
    /\ alert_report.status = "returned" =>
          /\ ExactlyTheFlagged(alert_report.df)
          /\ Ranked(alert_report.df)
    /\ ~miscompares_sheet.none =>
          /\ ExactlyTheFlagged(miscompares_sheet.rows)
          /\ Ranked(miscompares_sheet.rows)

\* the table lists a rank-4 row before a rank-1 row; the alert report and
\* the sheet list them the other way round
C17_Witness ==
    /\ Len(Rows) = 2
    /\ Rank(Rows[1].Miscompare_Severity) = 4
    /\ Rank(Rows[2].Miscompare_Severity) = 1
    /\ alert_report.status = "returned"
    /\ Len(alert_report.df) = 2
    /\ alert_report.df[1].Unit = Rows[2].Unit
    /\ ~miscompares_sheet.none
    /\ Len(miscompares_sheet.rows) = 2
    /\ miscompares_sheet.rows[1].Priority = N(1)

(***************************************************************************)
(* Specification of the command-line application: main() from its entry   *)
(* to its exit, on inputs some of which are faulty, with the locks file as *)
(* delimited text or as a workbook, with and without the optional reports. *)
(***************************************************************************)
InitMain ==
    /\ units_file \in RunsUnitsFiles
    /\ rentroll_file \in RunsRentrollFiles
    /\ locks_file \in RunsLocksFiles
    /\ empty_apply_raises \in BOOLEAN
    /\ Fresh
    /\ NoReports
    /\ seen = None
    /\ cli = NotStarted
    /\ locks_format \in {"csv", "xlsx"}
    /\ args \in [no_dashboard : BOOLEAN, no_visualizations : BOOLEAN]

NextMain ==
    \/ MainValidateInputFiles
    \/ MainCreateOutputDirectory
    \/ MainRunAnalysis
    \/ MainGenerateSummaryReport
    \/ MainCreateDetailedReport
    \/ MainCreateEnhancedReport
    \/ MainGenerateAlertReport
    \/ MainCreateSummaryDashboard
    \/ MainCreateVisualizationSuite
    \/ MainSaveRawResults
    \/ MainPrintSummary

SpecMain == InitMain /\ [][NextMain]_vars

\* C18: a .xlsx locks file with the columns 'Unit Number' and 'Status' is
\* accepted by the command-line application: main() does not fail in its
\* input validation, before the analyzer has seen the file.
C18_XlsxLocksAccepted ==
    /\ locks_format = "xlsx"
    /\ HasCol(locks_file, "Unit Number")
    /\ HasCol(locks_file, "Status")
    => cli # Failed("validate_input_files")

(***************************************************************************)
(* Data-quality conditions, under Spec: its inputs have statuses that are  *)
(* no occupancy code, lock statuses outside the closed set, occupied units *)
(* without a rentroll row and rentroll units without a unit row.           *)
(***************************************************************************)
RequiredColumnsPresent ==
    /\ HasCol(units_file, "Unit") /\ HasCol(units_file, "Status")
    /\ HasCol(rentroll_file, "Unit") /\ HasCol(rentroll_file, "Days Past Due")
    /\ HasCol(locks_file, "Unit Number") /\ HasCol(locks_file, "Status")

\* the returned table has one row for every unit row, with every derived
\* column filled in
CompleteTable ==
    /\ ret.status = "returned"
    /\ Len(ret.df) = Len(units_file.rows)
    /\ \A i \in DOMAIN ret.df :
          /\ ret.df[i].Final_Status
                \in {"Vacant", "Occupied-Current", "Occupied-Delinquent", "Unknown"}
          /\ ret.df[i].Actual_Lock_Status # ""
          /\ ret.df[i].Expected_Lock_Status # ""
          /\ ret.df[i].Is_Miscompare \in BOOLEAN
          /\ ret.df[i].Miscompare_Severity # ""

InitDup ==
    /\ units_file \in
          {Table(<<"Unit", "Status">>, <<<<S("A1"), st>>, <<S("B2"), S("Occupied")>>>>) :
              st \in {S("Occupied"), S("Vacant")}}
    /\ rentroll_file \in
          {Table(<<"Unit", "Days Past Due">>, rows) :
              rows \in SeqsUpTo({<<S("A1"), N(0)>>, <<S("A1"), N(45)>>,
                                 <<S(" A1"), N(45)>>, <<S("B2"), N(0)>>}, MaxRentRows)}
    /\ locks_file \in
          {Table(<<"Unit Number", "Status">>, rows) :
              rows \in SeqsUpTo({<<S("A1"), S("Tenant Using Lock")>>,
                                 <<S("A1"), S("Assigned Overlock")>>,
                                 <<S("A1 "), S("Assigned Vacant")>>,
                                 <<S("B2"), S("Tenant Using Lock")>>}, MaxLockRows)}
    /\ empty_apply_raises \in BOOLEAN
    /\ Fresh
    /\ Idle

SpecDup == InitDup /\ [][Next]_vars

\* the records of a loaded table without those that a later record of the
\* same unit follows
KeepLast(records) ==
    SelectSeq([i \in DOMAIN records |->
                  [row |-> records[i],
                   last |-> \A k \in DOMAIN records : records[k].Unit = records[i].Unit => k <= i]],
              LAMBDA r : r.last)

WithoutEarlierDuplicates(records) ==
    LET kept == KeepLast(records) IN [i \in DOMAIN kept |-> kept[i].row]

\* C20: of several rentroll rows (lock records) of one unit the last in
\* input order decides the unit's Final_Status (Actual_Lock_Status), and the
\* returned table is the one the inputs without the earlier duplicates give.
C20_LastDuplicateWins ==
    ret.status = "returned" =>
        /\ \A i \in DOMAIN Rows :
              /\ Rows[i].Unit_Status = "Occupied" /\ InRentroll(Rows[i].Unit) =>
                    Rows[i].Final_Status =
                        "Occupied-" \o rentroll_df.rows[LastRentrollRow(Rows[i].Unit)].Payment_Status
              /\ InLocks(Rows[i].Unit) =>
                    Rows[i].Actual_Lock_Status
                        = locks_df.rows[LastLockRow(Rows[i].Unit)].Lock_Status
        /\ Rows = Pipeline(units_df.rows,
                           WithoutEarlierDuplicates(rentroll_df.rows),
                           WithoutEarlierDuplicates(locks_df.rows))

\* unit A1 has a delinquent rentroll row followed by a current one, and an
\* overlock record followed by a tenant-lock record: the last ones decide
C20_Witness ==
    /\ ret.status = "returned"
    /\ rentroll_file.rows = <<<<S(" A1"), N(45)>>, <<S("A1"), N(0)>>>>
    /\ locks_file.rows = <<<<S("A1"), S("Assigned Overlock")>>,
                          <<S("A1"), S("Tenant Using Lock")>>>>
    /\ Rows[1].Unit = "A1"
    /\ Rows[1].Final_Status = "Occupied-Current"
    /\ Rows[1].Actual_Lock_Status = "Tenant Using Lock"
    /\ ~Rows[1].Is_Miscompare

\* C21: after load_rentroll_file, Days_Past_Due_Clean of every rentroll row
\* is a non-negative integer, whatever the raw value.
C21_DaysNonNegative ==
    \A i \in DOMAIN rentroll_df.rows : rentroll_df.rows[i].Days_Past_Due_Clean \in Nat

(***************************************************************************)
(* Specification of orphan records: at most MaxUnits occupied units A1 and *)
(* B2, and rentroll rows and lock records of A1, B2 and of Z9, a unit      *)
(* that is never in the units input.                                       *)
(***************************************************************************)
InitOrphans ==
    /\ units_file \in
          {Table(<<"Unit", "Status">>, rows) :
              rows \in SeqsUpTo({<<S(" A1"), S("Occupied")>>, <<S("B2"), S("Occupied")>>},
                                MaxUnits)}
    /\ rentroll_file \in
          {Table(<<"Unit", "Days Past Due">>, rows) :
              rows \in SeqsUpTo({<<S("A1"), N(45)>>, <<S("Z9"), N(45)>>, <<S("B2"), N(0)>>},
                                MaxRentRows)}
    /\ locks_file \in
          {Table(<<"Unit Number", "Status">>, rows) :
              rows \in SeqsUpTo({<<S("A1"), S("Assigned Overlock")>>,
                                 <<S("Z9"), S("Tenant Using Lock")>>,
                                 <<S("B2"), S("Assigned Vacant")>>}, MaxLockRows)}
    /\ empty_apply_raises \in BOOLEAN
    /\ Fresh
    /\ Idle

SpecOrphans == InitOrphans /\ [][Next]_vars

\* the records of a loaded table whose unit has a unit row
WithoutOrphans(records) ==
    SelectSeq(records,
              LAMBDA r : \E i \in DOMAIN units_df.rows : units_df.rows[i].Unit = r.Unit)

\* C22: the returned table has one row for every unit row, with the trimmed
\* unit id of that row, and it is the table the inputs give without the
\* rentroll rows and lock records of units that have no unit row.
C22_OrphansHaveNoEffect ==
    ret.status = "returned" =>
        /\ Len(Rows) = Len(units_file.rows)
        /\ \A i \in DOMAIN Rows : IsTrimOf(Rows[i].Unit, units_file.rows[i][1].s)
        /\ Rows = Pipeline(units_df.rows,
                           WithoutOrphans(rentroll_df.rows),
                           WithoutOrphans(locks_df.rows))

\* a rentroll row and a lock record of Z9, and a table of A1 alone
C22_Witness ==
    /\ ret.status = "returned"
    /\ \E j \in DOMAIN rentroll_df.rows : rentroll_df.rows[j].Unit = "Z9"
    /\ \E j \in DOMAIN locks_df.rows : locks_df.rows[j].Unit = "Z9"
    /\ Len(Rows) = 1
    /\ Rows[1].Unit = "A1"
    /\ Rows[1].Final_Status = "Occupied-Delinquent"

(***************************************************************************)
(* Specification of the operations that follow run_analysis: two units, A1 *)
(* current and B2 delinquent when occupied, one lock record for each, and  *)
(* every downstream operation called in any order, any number of times.    *)
(***************************************************************************)
InitDownstream ==
    /\ units_file \in
          {Table(<<"Unit", "Status">>, <<<<S("A1"), a>>, <<S("B2"), S("Occupied")>>>>) :
              a \in {S("Occupied"), S("Vacant")}}
    /\ rentroll_file = Table(<<"Unit", "Days Past Due">>,
                             <<<<S("A1"), N(0)>>, <<S("B2"), N(45)>>>>)
    /\ locks_file \in
          {Table(<<"Unit Number", "Status">>, <<<<S("A1"), a>>, <<S("B2"), b>>>>) :
              a \in AlertLockCells, b \in AlertLockCells}
    /\ empty_apply_raises = FALSE
    /\ Fresh
    /\ Idle

NextDownstream ==
    \/ RunAnalysis
    \/ NewReportGenerator
    \/ GenerateAlertReport
    \/ CreateDetailedReport
    \/ CreateMiscomparesSheet
    \/ GenerateSummaryReport
    \/ GetMiscompares
    \/ SaveResults

SpecDownstream == InitDownstream /\ [][NextDownstream]_vars

NextStale ==
    \/ \E u \in RunsUnitsFiles :
          RunAnalysisOn(u, Table(<<"Unit", "Days Past Due">>, <<<<S("A1"), N(45)>>>>),
                        Table(<<"Unit Number", "Status">>,
                              <<<<S("A1"), S("Assigned Vacant")>>>>))
    \/ GetMiscompares
    \/ SaveResults

SpecStale == InitRuns /\ [][NextStale]_vars

\* C24: get_miscompares and save_results raise ValueError ('Run analysis
\* first') unless the most recent run_analysis call succeeded, and otherwise
\* work on the table of that call: after a failed run they never give rows of
\* an earlier run, and before any run they raise.
C24_ResultsOfLastRunOnly ==
    [][/\ GetMiscompares =>
            got_miscompares' = IF ret.status = "returned"
                               THEN Returned(Miscompares(ret.df))
                               ELSE RunAnalysisFirst
       /\ SaveResults =>
            IF ret.status = "returned"
            THEN saved_results' \in {Returned(ret.df), WriteFailed}
            ELSE saved_results' = RunAnalysisFirst]_vars

(***************************************************************************)
(* The order of the steps of main(), under SpecMain.                       *)
(***************************************************************************)
SuccessPrinted ==
    \E i \in DOMAIN printed :
        printed[i].line = "STOREDGE DAVINCI UNIT STATUS ANALYSIS COMPLETE"

\* the files main() was asked to write: both workbooks, the alerts when
\* there are any, the dashboard and the charts unless switched off, and the
\* raw results
Requested ==
    {"detailed_analysis_report.xlsx", "enhanced_analysis_report.xlsx",
     "complete_analysis_results.csv"}
    \cup (IF \E i \in DOMAIN ret.df : ret.df[i].Is_Miscompare
          THEN {"priority_alerts.csv"} ELSE {})
    \cup (IF args.no_dashboard THEN {} ELSE {"analysis_dashboard.html"})
    \cup (IF args.no_visualizations THEN {} ELSE {"visualizations"})

\* C29: main() validates its input, creates the output directory, runs the
\* analysis and writes the reports, in this order; when the validation or
\* run_analysis fails no file is written, the process exits with status 1
\* and the success summary is not printed; the success summary is printed
\* only once every requested report and complete_analysis_results.csv are
\* written.
C29_StepsInOrder ==
    /\ ret.status # "none" => cli.pc \notin {"start", "validated", "created"}
    /\ ret.status # "none" => cli.error # "validate_input_files"
    /\ written # {} => ret.status = "returned" /\ cli.pc \notin {"analyzed", "summarized"}
    /\ cli.error \in {"validate_input_files", "run_analysis"} =>
          /\ written = {}
          /\ cli.pc = "exit" /\ cli.exit = 1
          /\ ~SuccessPrinted
    /\ cli.error = "run_analysis" <=> ret.status = "raised"
    /\ SuccessPrinted =>
          /\ ret.status = "returned"
          /\ written = Requested
          /\ cli = Done

\* a run with a flagged unit and every optional report has printed its
\* summary
C29_Witness ==
    /\ cli = Done
    /\ SuccessPrinted
    /\ args = DefaultArgs
    /\ "priority_alerts.csv" \in written
    /\ "visualizations" \in written

(***************************************************************************)
(* Specification of the web front end: two units, A1 current and B2        *)
(* delinquent when occupied, under headers that are the required names,    *)
(* other spellings of them, longer names that contain them, or other names;*)
(* the three options set in every way.                                     *)
(***************************************************************************)
WebUnitsHeaders ==
    {<<"Unit", "Status">>, <<"unit", "status">>, <<"Unit Number", "Status">>,
     <<"Unit", "State">>}
WebRentrollHeaders == {<<"Unit", "Days Past Due">>, <<"Unit", "days past due">>}
WebLocksHeaders ==
    {<<"Unit Number", "Status">>, <<"Unit Number", "Lock Status">>, <<"Unit", "Status">>}

InitWeb ==
    /\ units_file \in
          {Table(h, <<<<S("A1"), a>>, <<S("B2"), S("Occupied")>>>>) :
              h \in WebUnitsHeaders, a \in {S("Occupied"), S("Vacant")}}
    /\ rentroll_file \in
          {Table(h, <<<<S("A1"), N(0)>>, <<S("B2"), N(45)>>>>) : h \in WebRentrollHeaders}
    /\ locks_file \in
          {Table(h, <<<<S("A1"), a>>, <<S("B2"), b>>>>) :
              h \in WebLocksHeaders, a \in AlertLockCells, b \in AlertLockCells}
    /\ empty_apply_raises = FALSE
    /\ Fresh
    /\ Idle

\* the handler of 'Run Analysis' after the analysis: it runs to its end
WebHandler ==
    \/ WebGenerateSummaryReport
    \/ WebGenerateReports
    \/ WebCreateSummaryDashboard
    \/ WebCreateVisualizations
    \/ WebShowResults

NextWeb ==
    \/ WebValidate
    \/ WebRunAnalysis
    \/ WebHandler

SpecWeb == InitWeb /\ [][NextWeb]_vars

\* the handler is one Python function: once entered it goes on to its end
SpecWebFair == SpecWeb /\ WF_vars(WebHandler)

WebDefaults ==
    /\ web.include_dashboard
    /\ web.include_visualizations
    /\ web.include_enhanced_excel

\* C25: with the three options left ticked, a run of the web front end on
\* validated files whose analysis and reports succeed reaches 'Analysis
\* complete!', and the only runs that end in 'Analysis Failed' are those
\* whose analysis or whose report generation failed.
C25_DefaultRunCompletes ==
    /\ [](WebDefaults /\ web.pc = "failed" =>
            web.error \in {"run_analysis", "create_detailed_report",
                           "create_summary_dashboard"})
    /\ (WebDefaults /\ web.pc = "dashboard") ~> (web.pc = "complete")

\* C26: uploads that validate_csv_file accepts have the columns the loaders
\* require, so a run started from the validated page does not fail with
\* 'Missing required columns'.
C26_WebValidationImpliesLoaderValidation ==
    /\ web.pc \notin {"upload", "invalid"} =>
          /\ load_units_file(units_file).ok
          /\ load_rentroll_file(rentroll_file).ok
          /\ load_locks_file(locks_file).ok
    /\ web.pc = "failed" /\ web.error = "run_analysis" => ret.missing = <<>>

(***************************************************************************)
(* Specification of the three front ends on the same inputs: two units, A1 *)
(* current and B2 delinquent when occupied, one lock record for each; the  *)
(* command-line application, the web page and export_to_excel each run     *)
(* their own analysis of these files.                                      *)
(***************************************************************************)
InitFigures ==
    /\ units_file \in
          {Table(<<"Unit", "Status">>, <<<<S("A1"), a>>, <<S("B2"), S("Occupied")>>>>) :
              a \in {S("Occupied"), S("Vacant")}}
    /\ rentroll_file = Table(<<"Unit", "Days Past Due">>,
                             <<<<S("A1"), N(0)>>, <<S("B2"), N(45)>>>>)
    /\ locks_file \in
          {Table(<<"Unit Number", "Status">>, <<<<S("A1"), a>>, <<S("B2"), b>>>>) :
              a \in AlertLockCells, b \in {S("Assigned Vacant"), S("Assigned Overlock")}}
    /\ empty_apply_raises = FALSE
    /\ Fresh
    /\ Idle

NextFigures ==
    \/ NextMain
    \/ NextWeb
    \/ ExportFromAnalysis

SpecFigures == InitFigures /\ [][NextFigures]_vars

HighLabels ==
    {"HIGH - Vacant unit with tenant lock",
     "HIGH - Current tenant without proper lock",
     "HIGH - Delinquent unit without lock"}

HighRows(df) == Cardinality({i \in DOMAIN df : df[i].Miscompare_Severity \in HighLabels})

\* C27: the 'High Severity Issues' line of the command-line application, the
\* 'High Severity' metric of the web page and the 'High Severity' line of
\* export_to_excel are each the number of rows with one of the three HIGH
\* labels, which is the 'High Severity Miscompares' value of the report
\* summary of the same table.
C27_HighSeverityFigure ==
    /\ \A i \in DOMAIN printed :
          printed[i].line = "STOREDGE DAVINCI UNIT STATUS ANALYSIS COMPLETE" =>
              /\ printed[i].high_severity = HighRows(ret.df)
              /\ printed[i].high_severity = HighSeverityMiscompares(report_df.rows)
    /\ web.pc = "complete" =>
          /\ web.high_severity = HighRows(ret.df)
          /\ web.high_severity = HighSeverityMiscompares(ret.df)
    /\ export.exit = 0 =>
          /\ export.high_severity = HighRows(ret.df)
          /\ export.high_severity = HighSeverityMiscompares(ret.df)

(***************************************************************************)
(* Specification of the severity labels: unit A1 occupied and current,     *)
(* vacant or of no known status, unit B2 occupied and delinquent, and for  *)
(* each a lock record of any status, known or not; the summary of the      *)
(* analyzer and the report generator's own counts.                         *)
(***************************************************************************)
SeverityLockCells == AlertLockCells \cup {S("Assigned Auction"), S("Broken")}

InitSeverity ==
    /\ units_file \in
          {Table(<<"Unit", "Status">>, <<<<S("A1"), a>>, <<S("B2"), S("Occupied")>>>>) :
              a \in {S("Occupied"), S("Vacant"), S("Unrentable")}}
    /\ rentroll_file = Table(<<"Unit", "Days Past Due">>,
                             <<<<S("A1"), N(0)>>, <<S("B2"), N(45)>>>>)
    /\ locks_file \in
          {Table(<<"Unit Number", "Status">>, <<<<S("A1"), a>>, <<S("B2"), b>>>>) :
              a \in SeverityLockCells, b \in SeverityLockCells}
    /\ empty_apply_raises = FALSE
    /\ Fresh
    /\ Idle

NextSeverity ==
    \/ RunAnalysis
    \/ GenerateSummaryReport
    \/ NewReportGenerator

SpecSeverity == InitSeverity /\ [][NextSeverity]_vars

SeverityLabels == HighLabels \cup {"MEDIUM - Lock status mismatch", "No Issue"}

\* the sum of the counts of a breakdown
RECURSIVE SumOfCounts(_)
SumOfCounts(dict) ==
    IF DOMAIN dict = {} THEN 0
    ELSE LET key == CHOOSE k \in DOMAIN dict : TRUE
         IN  dict[key] + SumOfCounts([k \in DOMAIN dict \ {key} |-> dict[k]])

\* C28: in the table run_analysis returns, each HIGH label occurs only on
\* rows of its own final status (Vacant, Occupied-Current,
\* Occupied-Delinquent), every severity is one of the five labels, the HIGH
\* and MEDIUM rows together are miscompare_count, and the severity counts sum
\* to total_units.
C28_SeverityMatchesStatus ==
    /\ \A i \in DOMAIN ret.df :
          LET row == ret.df[i]
          IN  /\ row.Miscompare_Severity \in SeverityLabels
              /\ row.Miscompare_Severity = "HIGH - Vacant unit with tenant lock" =>
                    row.Final_Status = "Vacant"
              /\ row.Miscompare_Severity = "HIGH - Current tenant without proper lock" =>
                    row.Final_Status = "Occupied-Current"
              /\ row.Miscompare_Severity = "HIGH - Delinquent unit without lock" =>
                    row.Final_Status = "Occupied-Delinquent"
    /\ summary.status = "returned" =>
          /\ DOMAIN summary.severity_breakdown \subseteq SeverityLabels
          /\ Get(summary.severity_breakdown, "HIGH - Vacant unit with tenant lock")
             + Get(summary.severity_breakdown, "HIGH - Current tenant without proper lock")
             + Get(summary.severity_breakdown, "HIGH - Delinquent unit without lock")
             + Get(summary.severity_breakdown, "MEDIUM - Lock status mismatch")
             = summary.miscompare_count
          /\ SumOfCounts(summary.severity_breakdown) = summary.total_units
    /\ ~report_df.none =>
          /\ HighSeverityMiscompares(report_df.rows) = HighRows(report_df.rows)
          /\ HighSeverityMiscompares(report_df.rows)
             + MediumSeverityMiscompares(report_df.rows)
             = SumIsMiscompare(report_df.rows)

\* a table with a HIGH row and a MEDIUM row, summarised by the analyzer and
\* handed to a report generator
C28_Witness ==
    /\ ret.status = "returned"
    /\ summary.status = "returned"
    /\ ~report_df.none
    /\ Get(summary.severity_breakdown, "HIGH - Current tenant without proper lock") = 1
    /\ Get(summary.severity_breakdown, "MEDIUM - Lock status mismatch") = 1
    /\ summary.miscompare_count = 2

(***************************************************************************)
(* Specification of the remote store: one call of store_analysis_results   *)
(* with a table of at most MaxStoreRows rows, with or without a client,    *)
(* each insert succeeding or not.                                          *)
(***************************************************************************)
InitStore ==
    /\ units_file = Table(<<"Unit", "Status">>, <<>>)
    /\ rentroll_file = Table(<<"Unit", "Days Past Due">>, <<>>)
    /\ locks_file = Table(<<"Unit Number", "Status">>, <<>>)
    /\ empty_apply_raises = FALSE
    /\ Fresh
    /\ Idle

NextStore ==
    \/ StoreAnalysisResults
    \/ StoreInsertBatch
    \/ StoreReturn

SpecStore == InitStore /\ [][NextStore]_vars

\* the rows of the session that are in the remote table
Stored == UNION {store.remote[b][1]..store.remote[b][2] : b \in DOMAIN store.remote}

\* C30: store_analysis_results returns True only when every row has been
\* inserted, in batches of at most 100 rows in table order, and when it
\* returns False no row of the session is in the remote store.
C30_AllOrNothing ==
    /\ store.result = "True" =>
          /\ Stored = 1..store.rows
          /\ \A b \in DOMAIN store.remote :
                /\ store.remote[b][2] - store.remote[b][1] + 1 <= 100
                /\ store.remote[b][1] = (IF b = 1 THEN 1 ELSE store.remote[b - 1][2] + 1)
    /\ store.result = "False" => Stored = {}

====
